---- MODULE Spec2Model ----
(***************************************************************************)
(* PixelProvenance exact-scheme codec: the DTAG record encoders            *)
(* (DevTagStrip.tsx, demo.tsx), the byte-plane and alpha-LSB canvas        *)
(* writers, and the two PNG decoders (strip decoder, shadow decoder).      *)
(*                                                                         *)
(* JavaScript values are represented as follows.                           *)
(*   - a byte array is a sequence of naturals; JS index i is TLA index i+1 *)
(*   - a string is the sequence of its code points                         *)
(*   - a number that may need 32 bits is a pair <<hi, lo>> standing for    *)
(*     hi * 65536 + lo with lo in 0..65535; a negative number has hi < 0   *)
(*   - `undefined` is Undef and NaN is NaN                                 *)
(***************************************************************************)
EXTENDS Integers, Sequences, FiniteSets, TLC

VARIABLES
    fields,     \* the DevTagPayload props handed to the encoder
    scheme,     \* which encoder/decoder pair runs: "strip" or "shadow"
    payload,    \* bytes returned by buildPayload
    wire,       \* the bytes handed directly to parsePayload (maybe corrupted)
    edit,       \* <<position, value>> of the byte changed in wire, or <<>>
    parsed,     \* result of the direct parsePayload(wire) call, or None
    width,      \* image width in pixels
    height,     \* image height in pixels
    data,       \* image buffer, RGBA, row-major (png.data / imageData.data)
    smudged,    \* rows of the image altered after rendering
    pc,         \* position of the pipeline
    pass,       \* decodeFromPNG: "bottom", "top" (strip) or "all" (shadow)
    row,        \* decodeFromPNG: next row to examine
    visited,    \* decodeFromPNG: rows examined so far, in order
    result,     \* value returned by decodeFromPNG, or None while running
    tag,        \* perceptual scheme: {p, t, d, size, intensity} of a component
    encSeed,    \* generatePerceptualPattern: `seed`, or None before the call
    encRng,     \* encoder's SeededRandom.seed
    encDraws,   \* values returned by the encoder's rng.next(), in order
    encTile,    \* gray values written by generatePerceptualPattern, or None
    decSeed,    \* decoder's generatePattern: `seed`, or None before the call
    decRng,     \* decoder's SeededRandom.seed
    decDraws,   \* values returned by the decoder's rng.next(), in order
    decTile,    \* pattern returned by the decoder's generatePattern, or None
    autoTile,   \* gray values written by the overlay's generatePattern
    pattern1,   \* compare: first argument
    pattern2,   \* compare: second argument
    score12,    \* compare(pattern1, pattern2), or None before the call
    score21,    \* compare(pattern2, pattern1), or None before the call
    shot,       \* scan: the screenshot
    registry,   \* scan: the registry entries
    threshold,  \* scan: the threshold of the running call
    sample,     \* scan: number of grid samples already scored
    matches,    \* scan: the `matches` map, in insertion order
    reports,    \* scan: threshold -> list returned by the call with it
    nodeEnv,    \* process.env.NODE_ENV
    tree,       \* mounted marker components, outermost first: their props
    rendered,   \* what each mounted marker rendered and set on its element
    createElement,      \* React.createElement: "original" or "patched"
    isPatched,          \* auto-inject.ts: isPatched
    componentRegistry,  \* auto-inject.ts: componentRegistry
    pathStack,          \* auto-inject.ts: pathStack
    enableCalled,       \* enableAutoDevTag has been called
    calls,      \* number of React.createElement calls made so far
    bounds,     \* ComponentMapper: the `bounds` state
    effectDue,  \* ComponentMapper: the redraw effect is scheduled
    runs,       \* ComponentMapper: number of runs of the redraw effect
    loading,    \* ComponentMapper: images whose onload has not fired yet
    canvas      \* ComponentMapper: what is painted on the overlay canvas

exact == <<fields, scheme, payload, wire, edit, parsed, width, height, data,
           smudged, pc, pass, row, visited, result>>

synth == <<tag, encSeed, encRng, encDraws, encTile, decSeed, decRng,
           decDraws, decTile, autoTile>>

match == <<pattern1, pattern2, score12, score21, shot, registry, threshold,
           sample, matches, reports>>

react == <<nodeEnv, tree, rendered, createElement, isPatched,
           componentRegistry, pathStack, enableCalled, calls>>

overlay == <<bounds, effectDue, runs, loading, canvas>>

vars == <<exact, synth, match, react, overlay>>

----------------------------------------------------------------------------
(* JavaScript primitives *)

Undef == -1
NaN == -2
None == [none |-> TRUE]
Null == [null |-> TRUE]

Bit(a, i) == (a \div (2 ^ i)) % 2

\* a ^ b on values that fit one byte
Xor(a, b) ==
    LET x(i) == (Bit(a, i) + Bit(b, i)) % 2
    IN  x(0) + 2 * x(1) + 4 * x(2) + 8 * x(3)
        + 16 * x(4) + 32 * x(5) + 64 * x(6) + 128 * x(7)

RECURSIVE SumReduce(_)
\* bytes.reduce((acc, b) => (acc + b) & 0xff, 0)
SumReduce(bytes) ==
    IF bytes = <<>> THEN 0 ELSE (Head(bytes) + SumReduce(Tail(bytes))) % 256

\* bytes.reduce((acc, b) => acc ^ b, 0): bit i of the fold is the parity of
\* bit i over all elements
XorReduce(bytes) ==
    LET par(i) == Cardinality({k \in DOMAIN bytes : Bit(bytes[k], i) = 1}) % 2
    IN  par(0) + 2 * par(1) + 4 * par(2) + 8 * par(3)
        + 16 * par(4) + 32 * par(5) + 64 * par(6) + 128 * par(7)

\* bytes[i] for a JS index i (undefined outside the array, and for NaN)
At(bytes, i) ==
    IF i # NaN /\ i >= 0 /\ i < Len(bytes) THEN bytes[i + 1] ELSE Undef

\* bytes.slice(from, to); a NaN end is 0, so the slice is empty
Slice(bytes, from, to) ==
    IF from = NaN \/ to = NaN THEN <<>>
    ELSE LET hi == IF to > Len(bytes) THEN Len(bytes) ELSE to
         IN  IF from >= hi THEN <<>> ELSE SubSeq(bytes, from + 1, hi)

\* idx + n for an index that may already be NaN, or an n that is undefined
Plus(idx, n) == IF idx = NaN \/ n = Undef THEN NaN ELSE idx + n

\* ToInt32 of an operand of << or | : undefined converts to 0
OrZero(b) == IF b = Undef THEN 0 ELSE b

\* (b0 << 24) | (b1 << 16) | (b2 << 8) | b3 : a signed 32-bit result
Int32FromBytes(b0, b1, b2, b3) ==
    LET h == (OrZero(b0) % 256) * 256 + (OrZero(b1) % 256)
        l == (OrZero(b2) % 256) * 256 + (OrZero(b3) % 256)
    IN  <<IF h >= 32768 THEN h - 65536 ELSE h, l>>

\* n >>> 0
ToUint32(n) == <<n[1] % 65536, n[2]>>

\* (n >> 24) & 0xff, (n >> 16) & 0xff, (n >> 8) & 0xff, n & 0xff
BigEndian(n) ==
    LET h == n[1] % 65536
    IN  <<h \div 256, h % 256, n[2] \div 256, n[2] % 256>>

----------------------------------------------------------------------------
(* Strings: TextEncoder / TextDecoder *)

ReplacementChar == 65533
ByteOrderMark == 65279

EncodeCodePoint(c) ==
    IF c < 128 THEN <<c>>
    ELSE IF c < 2048 THEN <<192 + (c \div 64), 128 + (c % 64)>>
    ELSE IF c < 65536
        THEN <<224 + (c \div 4096), 128 + ((c \div 64) % 64), 128 + (c % 64)>>
    ELSE <<240 + (c \div 262144), 128 + ((c \div 4096) % 64),
           128 + ((c \div 64) % 64), 128 + (c % 64)>>

RECURSIVE stringToBytes(_)
\* Array.from(new TextEncoder().encode(str))
stringToBytes(str) ==
    IF str = <<>> THEN <<>>
    ELSE EncodeCodePoint(Head(str)) \o stringToBytes(Tail(str))

IsCont(bytes, i, lo, hi) ==
    i <= Len(bytes) /\ bytes[i] >= lo /\ bytes[i] <= hi

RECURSIVE Utf8Decode(_, _)
\* the UTF-8 decoder of TextDecoder: a malformed sequence becomes U+FFFD and
\* the offending byte is read again as the start of the next sequence
Utf8Decode(bytes, i) ==
    IF i > Len(bytes) THEN <<>>
    ELSE LET b == bytes[i]
             lo2 == IF b = 224 THEN 160 ELSE IF b = 240 THEN 144 ELSE 128
             hi2 == IF b = 237 THEN 159 ELSE IF b = 244 THEN 143 ELSE 191
         IN  IF b < 128 THEN <<b>> \o Utf8Decode(bytes, i + 1)
             ELSE IF b >= 194 /\ b <= 223 THEN
                 IF IsCont(bytes, i + 1, 128, 191)
                 THEN <<(b - 192) * 64 + (bytes[i + 1] - 128)>>
                      \o Utf8Decode(bytes, i + 2)
                 ELSE <<ReplacementChar>> \o Utf8Decode(bytes, i + 1)
             ELSE IF b >= 224 /\ b <= 239 THEN
                 IF ~IsCont(bytes, i + 1, lo2, hi2)
                 THEN <<ReplacementChar>> \o Utf8Decode(bytes, i + 1)
                 ELSE IF ~IsCont(bytes, i + 2, 128, 191)
                 THEN <<ReplacementChar>> \o Utf8Decode(bytes, i + 2)
                 ELSE <<(b - 224) * 4096 + (bytes[i + 1] - 128) * 64
                        + (bytes[i + 2] - 128)>>
                      \o Utf8Decode(bytes, i + 3)
             ELSE IF b >= 240 /\ b <= 244 THEN
                 IF ~IsCont(bytes, i + 1, lo2, hi2)
                 THEN <<ReplacementChar>> \o Utf8Decode(bytes, i + 1)
                 ELSE IF ~IsCont(bytes, i + 2, 128, 191)
                 THEN <<ReplacementChar>> \o Utf8Decode(bytes, i + 2)
                 ELSE IF ~IsCont(bytes, i + 3, 128, 191)
                 THEN <<ReplacementChar>> \o Utf8Decode(bytes, i + 3)
                 ELSE <<(b - 240) * 262144 + (bytes[i + 1] - 128) * 4096
                        + (bytes[i + 2] - 128) * 64 + (bytes[i + 3] - 128)>>
                      \o Utf8Decode(bytes, i + 4)
             ELSE <<ReplacementChar>> \o Utf8Decode(bytes, i + 1)

\* new TextDecoder().decode(new Uint8Array(bytes)); the default decoder
\* (ignoreBOM false) drops a leading byte order mark
bytesToString(bytes) ==
    LET s == Utf8Decode(bytes, 1)
    IN  IF s # <<>> /\ Head(s) = ByteOrderMark THEN Tail(s) ELSE s

Zero == 48

RECURSIVE TrimTrailingZeros(_)
\* str.replace(/0+$/, '')
TrimTrailingZeros(str) ==
    IF str # <<>> /\ str[Len(str)] = Zero
    THEN TrimTrailingZeros(SubSeq(str, 1, Len(str) - 1))
    ELSE str

\* str.slice(0, 7).padEnd(7, '\0')
PadShaNul(str) ==
    LET cut == IF Len(str) > 7 THEN SubSeq(str, 1, 7) ELSE str
    IN  cut \o [i \in 1..(7 - Len(cut)) |-> 0]

\* str.slice(0, 7).padEnd(7, '0')
PadSha(str) ==
    LET cut == IF Len(str) > 7 THEN SubSeq(str, 1, 7) ELSE str
    IN  cut \o [i \in 1..(7 - Len(cut)) |-> Zero]

----------------------------------------------------------------------------
(* Encoders *)

MAGIC == <<68, 84, 65, 71>>
VERSION == 1

\* simpleHash, the loop body: ((hash << 5) - hash + c) | 0
simpleHashStep(h, c) ==
    LET shl == <<(h[1] * 32 + ((h[2] * 32) \div 65536)) % 65536,
                 (h[2] * 32) % 65536>>
        dl == shl[2] - h[2] + c
        dh == shl[1] - h[1] + (dl \div 65536)
    IN  <<dh % 65536, dl % 65536>>

\* simpleHash(str): the loop, then hash >>> 0.  run(h, i, j) is the hash
\* after the iterations for the characters i..j
simpleHash(str) ==
    LET RECURSIVE run(_, _, _)
        run(h, i, j) ==
            IF i > j THEN h
            ELSE IF i = j THEN simpleHashStep(h, str[i])
            ELSE LET mid == (i + j) \div 2
                     a == run(h, i, mid)
                 IN  IF a = <<>> THEN a ELSE run(a, mid + 1, j)
    IN  ToUint32(run(<<0, 0>>, 1, Len(str)))

\* DevTagStrip.tsx buildPayload; ts = props.timestamp
buildPayload(props) ==
    LET routeHash == simpleHash(props.route)
        sha == PadSha(props.sha)
        viewIdBytes == stringToBytes(props.viewId)
        ts == props.timestamp
        bytes == MAGIC \o <<VERSION>> \o <<props.flags>>
                 \o BigEndian(routeHash)
                 \o stringToBytes(sha)
                 \o <<Len(viewIdBytes)>> \o viewIdBytes
                 \o BigEndian(ts)
    IN  bytes \o <<XorReduce(bytes)>>

\* demo.tsx buildPayload; ts = Math.floor(Date.now() / 1000), the clock
\* reading `now`
buildPayloadShadow(props, now) ==
    LET routeHash == simpleHash(props.route)
        sha == PadSha(props.sha)
        viewIdBytes == stringToBytes(props.viewId)
        bytes == MAGIC \o <<VERSION>> \o <<props.flags>>
                 \o BigEndian(routeHash)
                 \o stringToBytes(sha)
                 \o <<Len(viewIdBytes)>> \o viewIdBytes
                 \o BigEndian(now)
    IN  bytes \o <<XorReduce(bytes)>>

HMAGIC == <<80, 88, 80, 86>>
HVERSION == 2

RECURSIVE Join(_)
\* path.join('/')
Join(path) ==
    IF path = <<>> THEN <<>>
    ELSE IF Len(path) = 1 THEN path[1]
    ELSE path[1] \o <<47>> \o Join(Tail(path))

\* buildHierarchicalPayload(scope); a root scope has no parentId
buildHierarchicalPayload(scope) ==
    LET typeBytes == stringToBytes(scope.type)
        idBytes == stringToBytes(scope.id)
        parentBytes == stringToBytes(scope.parentId)
        pathBytes == stringToBytes(Join(scope.path))
        bytes == HMAGIC \o <<HVERSION>> \o <<scope.depth>>
                 \o <<Len(typeBytes)>> \o typeBytes
                 \o <<Len(idBytes)>> \o idBytes
                 \o <<Len(parentBytes)>> \o parentBytes
                 \o <<(Len(pathBytes) \div 256) % 256, Len(pathBytes) % 256>>
                 \o pathBytes
    IN  bytes \o <<XorReduce(bytes)>>

----------------------------------------------------------------------------
(* Canvas writers *)

STRIP_HEIGHT == 4

\* a store into a Uint8ClampedArray
Clamp(v) == IF v < 0 THEN 0 ELSE IF v > 255 THEN 255 ELSE v

\* Math.ceil(n / 3)
PixelsNeeded(n) == (n + 2) \div 3

\* renderToCanvas: the image data put on the w x STRIP_HEIGHT canvas. Each
\* pixel carries three payload bytes in R, G, B; the record (zero-padded to
\* whole pixels) repeats across the row, and every row is the same.
renderToCanvas(bytes, w) ==
    LET pixelsNeeded == PixelsNeeded(Len(bytes))
        paddedPayload ==
            bytes \o [i \in 1..(3 * pixelsNeeded - Len(bytes)) |-> 0]
    IN  [k \in 1..(w * STRIP_HEIGHT * 4) |->
            LET idx == k - 1
                x == (idx \div 4) % w
                ch == idx % 4
                byteOffset == (x % pixelsNeeded) * 3
            IN  IF ch = 3 THEN 255
                ELSE Clamp(OrZero(At(paddedPayload, byteOffset + ch)))]

RECURSIVE ToBits(_)
\* for (const byte of payload) for (i = 7..0) bits.push((byte >> i) & 1)
ToBits(bytes) ==
    IF bytes = <<>> THEN <<>>
    ELSE [j \in 1..8 |-> Bit(Head(bytes), 8 - j)] \o ToBits(Tail(bytes))

\* alpha byte of the shadow gradient in row y of an h-row canvas: black with
\* alpha 0.15 at the top, 0.08 at 30% and 0 at the bottom, sampled at the
\* centre of the row
GradientAlpha(y, h) ==
    LET t == ((2 * y + 1) * 1000) \div (2 * h)
        a == IF t <= 300 THEN 1500 - (t * 700) \div 300
             ELSE 800 - ((t - 300) * 800) \div 700
    IN  (a * 255 + 5000) \div 10000

\* (v & 0xFE) | bit
SetLsb(v, bit) == (v \div 2) * 2 + bit

\* the shadow with the payload bits in row 0 only
renderShadowSingleRow(bytes, w, h) ==
    LET bits == ToBits(bytes)
    IN  [k \in 1..(w * h * 4) |->
            LET idx == k - 1
                x == (idx \div 4) % w
                y == (idx \div 4) \div w
            IN  IF idx % 4 # 3 THEN 0
                ELSE IF y = 0 /\ x < Len(bits)
                THEN SetLsb(GradientAlpha(y, h), bits[x + 1])
                ELSE GradientAlpha(y, h)]

\* renderShadowWithData: the gradient, then one payload bit per pixel in the
\* alpha LSB of row 0, repeated in rows 2 and 4 where the index is inside
\* the buffer
renderShadowWithData(bytes, w, h) ==
    LET bits == ToBits(bytes)
        length == w * h * 4
    IN  [k \in 1..length |->
            LET idx == k - 1
                x == (idx \div 4) % w
                y == (idx \div 4) \div w
                ch == idx % 4
            IN  IF ch # 3 THEN 0
                ELSE IF y \in {0, 2, 4} /\ x < Len(bits) /\ idx < length
                THEN SetLsb(GradientAlpha(y, h), bits[x + 1])
                ELSE GradientAlpha(y, h)]

\* alpha byte of the scope shadow's gradient in row y of an h-row canvas:
\* black with alpha 0.12 at the top, 0.06 in the middle and 0 at the bottom,
\* sampled at the centre of the row
HierarchyAlpha(y, h) ==
    LET t == ((2 * y + 1) * 1000) \div (2 * h)
        a == IF t <= 500 THEN 1200 - (t * 600) \div 500
             ELSE 600 - ((t - 500) * 600) \div 500
    IN  (a * 255 + 5000) \div 10000

\* every row of the canvas (not the rows the writer repeats the bits in)
HierarchyRowsAll(h) == 0..(h - 1)

\* the rows the scope shadow carries its bits in: row 0, then
\* [Math.floor(height / 2), height - 1]
HierarchyRows(h) == {0, h \div 2, h - 1}

\* renderShadowWithHierarchy: the gradient, then three payload bits per
\* pixel in the R, G, B LSBs of row 0, repeated in the middle and the last
\* row; the result is the image data handed to putImageData
renderShadowWithHierarchy(scope, w, h) ==
    LET bits == ToBits(buildHierarchicalPayload(scope))
    IN  [k \in 1..(w * h * 4) |->
            LET idx == k - 1
                x == (idx \div 4) % w
                y == (idx \div 4) \div w
                ch == idx % 4
                bitIndex == (3 * x) + ch
            IN  IF ch = 3 THEN HierarchyAlpha(y, h)
                ELSE IF y \in HierarchyRows(h) /\ bitIndex < Len(bits)
                THEN SetLsb(0, bits[bitIndex + 1])
                ELSE 0]

----------------------------------------------------------------------------
(* Strip decoder *)

\* a search that looks no further than the rows of one strip
StripRowsOnly == STRIP_HEIGHT

STRIP_SEARCH_ROWS == 8

\* extractBytesFromRow: R, G, B of every pixel of the row
extractBytesFromRow(buf, w, rowIndex) ==
    LET rowOffset == rowIndex * w * 4
    IN  [k \in 1..(3 * w) |->
            buf[rowOffset + ((k - 1) \div 3) * 4 + ((k - 1) % 3) + 1]]

MagicAt(bytes, i) ==
    /\ At(bytes, i) = MAGIC[1]
    /\ At(bytes, i + 1) = MAGIC[2]
    /\ At(bytes, i + 2) = MAGIC[3]
    /\ At(bytes, i + 3) = MAGIC[4]

\* findMagic: index of the first occurrence of MAGIC, or -1
findMagic(bytes) ==
    LET hits == {i \in 0..(Len(bytes) - 4) : MagicAt(bytes, i)}
    IN  IF hits = {} THEN -1
        ELSE CHOOSE i \in hits : \A j \in hits : i <= j

\* the timestamp expression without its `>>> 0`
TimestampSigned(b0, b1, b2, b3) == Int32FromBytes(b0, b1, b2, b3)

\* ((b0 << 24) | (b1 << 16) | (b2 << 8) | b3) >>> 0
TimestampFromBytes(b0, b1, b2, b3) == ToUint32(Int32FromBytes(b0, b1, b2, b3))

\* a comparison that only asks for a checksum byte to be present
ChecksumPresent(storedChecksum, computedChecksum) == storedChecksum # Undef

\* storedChecksum == computedChecksum with a missing byte read as 0
ChecksumLoose(storedChecksum, computedChecksum) ==
    OrZero(storedChecksum) = computedChecksum

\* storedChecksum === computedChecksum
ChecksumMatches(storedChecksum, computedChecksum) ==
    storedChecksum = computedChecksum

\* parsePayload(bytes, startIdx) of the strip decoder
parsePayload(bytes, startIdx) ==
    LET i0 == startIdx + 4
        version == At(bytes, i0)
        flags == At(bytes, i0 + 1)
        routeHash == Int32FromBytes(At(bytes, i0 + 2), At(bytes, i0 + 3),
                                    At(bytes, i0 + 4), At(bytes, i0 + 5))
        shaBytes == Slice(bytes, i0 + 6, i0 + 13)
        sha == TrimTrailingZeros(bytesToString(shaBytes))
        viewIdLen == At(bytes, i0 + 13)
        iv == i0 + 14
        viewIdBytes == Slice(bytes, iv, Plus(iv, viewIdLen))
        it == Plus(iv, viewIdLen)
        timestamp ==
            TimestampFromBytes(At(bytes, it), At(bytes, Plus(it, 1)),
                               At(bytes, Plus(it, 2)), At(bytes, Plus(it, 3)))
        ic == Plus(it, 4)
        storedChecksum == At(bytes, ic)
        payloadBytes == Slice(bytes, startIdx, ic)
        computedChecksum == XorReduce(payloadBytes)
    IN  [version |-> version, flags |-> flags, routeHash |-> routeHash,
         sha |-> sha, viewId |-> bytesToString(viewIdBytes),
         timestamp |-> timestamp, checksum |-> storedChecksum,
         checksumValid |-> ChecksumMatches(storedChecksum, computedChecksum)]

\* the row loop body without the `payload?.checksumValid` test
StripTryRowUnchecked(buf, w, r) ==
    LET bytes == extractBytesFromRow(buf, w, r)
        magicIdx == findMagic(bytes)
    IN  IF magicIdx = -1 THEN Null ELSE parsePayload(bytes, magicIdx)

\* the body of both row loops of decodeFromPNG: the payload the row yields,
\* or Null when the row has no magic or its record fails the checksum
StripTryRow(buf, w, r) ==
    LET bytes == extractBytesFromRow(buf, w, r)
        magicIdx == findMagic(bytes)
    IN  IF magicIdx = -1 THEN Null
        ELSE LET p == parsePayload(bytes, magicIdx)
             IN  IF p.checksumValid THEN p ELSE Null

----------------------------------------------------------------------------
(* Shadow decoder *)

MaxPayloadBits == 512

\* extractBitsFromRow: the alpha LSB of the first min(w, numBits) pixels
extractBitsFromRow(buf, w, r, numBits) ==
    [k \in 1..(IF w < numBits THEN w ELSE numBits) |->
        buf[(r * w + (k - 1)) * 4 + 3 + 1] % 2]

\* bitsToBytes with byte = byte | (bits[i + j] << j): least significant first
bitsToBytesLsbFirst(bits) ==
    [b \in 1..(Len(bits) \div 8) |->
        LET at(j) == bits[(b - 1) * 8 + j]
        IN  at(1) + 2 * at(2) + 4 * at(3) + 8 * at(4)
            + 16 * at(5) + 32 * at(6) + 64 * at(7) + 128 * at(8)]

\* bitsToBytes: whole bytes only, most significant bit first
bitsToBytes(bits) ==
    [b \in 1..(Len(bits) \div 8) |->
        LET at(j) == bits[(b - 1) * 8 + j]
        IN  128 * at(1) + 64 * at(2) + 32 * at(3) + 16 * at(4)
            + 8 * at(5) + 4 * at(6) + 2 * at(7) + at(8)]

hasMagic(bytes) ==
    /\ Len(bytes) >= 4
    /\ bytes[1] = MAGIC[1] /\ bytes[2] = MAGIC[2]
    /\ bytes[3] = MAGIC[3] /\ bytes[4] = MAGIC[4]

\* parsePayload(bytes) of the shadow decoder
parsePayloadShadow(bytes) ==
    IF ~hasMagic(bytes) THEN Null
    ELSE
    LET version == At(bytes, 4)
        flags == At(bytes, 5)
        routeHash == Int32FromBytes(At(bytes, 6), At(bytes, 7),
                                    At(bytes, 8), At(bytes, 9))
        shaBytes == Slice(bytes, 10, 17)
        sha == TrimTrailingZeros(bytesToString(shaBytes))
        viewIdLen == At(bytes, 17)
        viewIdBytes == Slice(bytes, 18, Plus(18, viewIdLen))
        it == Plus(18, viewIdLen)
        timestamp ==
            ToUint32(Int32FromBytes(At(bytes, it), At(bytes, Plus(it, 1)),
                                    At(bytes, Plus(it, 2)),
                                    At(bytes, Plus(it, 3))))
        ic == Plus(it, 4)
        storedChecksum == At(bytes, ic)
        payloadBytes == Slice(bytes, 0, ic)
        computedChecksum == XorReduce(payloadBytes)
    IN  [version |-> version, flags |-> flags, routeHash |-> routeHash,
         sha |-> sha, viewId |-> bytesToString(viewIdBytes),
         timestamp |-> timestamp, checksum |-> storedChecksum,
         checksumValid |-> (storedChecksum = computedChecksum)]

\* the body of the row loop of the shadow decodeFromPNG
ShadowTryRow(buf, w, r) ==
    LET bits == extractBitsFromRow(buf, w, r, MaxPayloadBits)
        bytes == bitsToBytes(bits)
    IN  IF ~hasMagic(bytes) THEN Null
        ELSE LET p == parsePayloadShadow(bytes)
             IN  IF p # Null /\ p.checksumValid THEN p ELSE Null

----------------------------------------------------------------------------
(* Inputs *)

MaxViewIdLen == 1
MaxSmudgedRows == 2

RECURSIVE Strings(_, _)
\* all strings over the alphabet of at most n characters
Strings(alphabet, n) ==
    IF n = 0 THEN {<<>>}
    ELSE LET shorter == Strings(alphabet, n - 1)
         IN  shorter \cup {<<c>> \o s : c \in alphabet, s \in shorter}

\* "A", "é" (two bytes in UTF-8) and U+FEFF (three bytes)
ViewIdAlphabet == {65, 233, ByteOrderMark}

BILLING_02 == <<66, 73, 76, 76, 73, 78, 71, 95, 48, 50>>
ViewIds == Strings(ViewIdAlphabet, MaxViewIdLen) \cup {BILLING_02}

SettingsBilling ==
    <<47, 115, 101, 116, 116, 105, 110, 103, 115,
      47, 98, 105, 108, 108, 105, 110, 103>>
Settings == <<47, 115, 101, 116, 116, 105, 110, 103, 115>>
\* simpleHash("/settings/billing") = 0x155d0abe, simpleHash("/settings") =
\* 0x8e131d52 (top bit set)
Routes == {SettingsBilling, Settings}

Abc1234 == <<97, 98, 99, 49, 50, 51, 52>>
Abc1230 == <<97, 98, 99, 49, 50, 51, 48>>
\* undefined (buildPayload takes ''), "abc1234", "abc1230"
Shas == {<<>>, Abc1234, Abc1230}

Flags == {0, 255}

\* 1700000239 (0x655410EF), 2^31 and 2^32 - 1 seconds
Timestamps == {<<25940, 4335>>, <<32768, 0>>, <<65535, 65535>>}

\* the props of the codec runs
Fields ==
    [viewId : ViewIds, route : Routes, sha : Shas, flags : Flags,
     timestamp : Timestamps]

\* the props of the runs that render and decode an image
ImageFields ==
    [viewId : ViewIds, route : {SettingsBilling}, sha : {Abc1234},
     flags : Flags, timestamp : {<<32768, 0>>}]

MaxDepth == 2

\* "P" and "é"
ScopeIds == {<<80>>, <<233>>}
\* "page" and "b"
ScopeTypes == {<<112, 97, 103, 101>>, <<98>>}

\* the scope DevTagScope builds for the innermost of a chain of nested
\* scopes with the given ids: parentId is the enclosing scope's id (none
\* for a root), depth the number of enclosing scopes
ScopeOf(chain, type) ==
    [id |-> chain[Len(chain)], type |-> type,
     parentId |-> IF Len(chain) > 1 THEN chain[Len(chain) - 1] ELSE <<>>,
     depth |-> Len(chain) - 1,
     path |-> chain]

Scopes ==
    {ScopeOf(chain, type) :
        chain \in Strings(ScopeIds, MaxDepth) \ {<<>>}, type \in ScopeTypes}

IsScope(f) == "path" \in DOMAIN f

\* values a changed byte of the wire takes
CorruptValues == {0, 255}

\* widths of the strip canvas for a record: one pixel short of the record,
\* exactly the record, two copies of the record
StripWidths(bytes) ==
    LET n == PixelsNeeded(Len(bytes)) IN {n - 1, n, 2 * n}

\* sizes of the shadow canvas for a record: the 100 x 4 strip, and a strip
\* and a five-row canvas with one pixel per payload bit
ShadowSizes(bytes) ==
    {<<100, 4>>, <<8 * Len(bytes), 4>>, <<8 * Len(bytes), 5>>}

\* sizes of the scope shadow's canvas: one row narrower than the record; two
\* rows of 41 pixels, which hold a 15-byte record and one pixel more; five
\* rows wider than every record
HierarchySizes == {<<4, 1>>, <<41, 2>>, <<70, 5>>}

\* images that carry no record: every channel of every pixel is v
BlankSizes == {<<3, 4>>, <<3, 10>>}
BlankValues == {0, 255}

\* the props of two strips on one page: one fixed at the top and one at the
\* bottom of the window
TopStripFields ==
    [viewId |-> <<65>>, route |-> Settings, sha |-> Abc1230, flags |-> 0,
     timestamp |-> <<25940, 4335>>]

BottomStripFields ==
    [viewId |-> BILLING_02, route |-> SettingsBilling, sha |-> Abc1234,
     flags |-> 0, timestamp |-> <<25940, 4335>>]

\* screenshots of a page with strips: the width, the rows of page between
\* the strips, and whether the bottom strip is there.  A window 5 pixels
\* wide cuts every strip row off after 15 bytes of the record.
PageShots ==
    {<<11, 1, TRUE>>, <<11, 8, TRUE>>, <<11, 12, FALSE>>, <<5, 1, TRUE>>}

\* the image data of a screenshot w pixels wide: the strip of top, then
\* gap rows of empty page, then the strip of bottom (if any)
PageShotData(w, gap, top, bottom) ==
    renderToCanvas(buildPayload(top), w)
    \o [k \in 1..(w * gap * 4) |-> 0]
    \o (IF bottom = None THEN <<>>
        ELSE renderToCanvas(buildPayload(bottom), w))

\* the channel changes applied to an image after rendering: <<x, ch, mask>>
\* XORs mask into channel ch of pixel x
SmudgeSpots(sch) ==
    IF sch = "strip" THEN {<<0, 0, 255>>, <<1, 2, 255>>, <<5, 2, 255>>}
    ELSE {<<1, 3, 1>>, <<47, 3, 1>>, <<136, 3, 1>>}

RowSets(h) ==
    {S \in SUBSET (0..(h - 1)) :
        S # {} /\ (Cardinality(S) <= MaxSmudgedRows \/ S = 0..(h - 1))}

----------------------------------------------------------------------------
(* The pipeline *)

Idle ==
    /\ scheme = "none"
    /\ payload = <<>>
    /\ wire = <<>>
    /\ edit = <<>>
    /\ parsed = None
    /\ width = 0
    /\ height = 0
    /\ data = <<>>
    /\ smudged = {}
    /\ pc = "idle"
    /\ pass = "none"
    /\ row = 0
    /\ visited = <<>>
    /\ result = None

\* no pattern has been generated
SynthIdle ==
    /\ encSeed = None /\ encRng = None /\ encDraws = <<>> /\ encTile = None
    /\ decSeed = None /\ decRng = None /\ decDraws = <<>> /\ decTile = None
    /\ autoTile = None

\* no comparison and no scan has run
MatchIdle ==
    /\ score12 = None /\ score21 = None
    /\ threshold = None /\ sample = 0 /\ matches = <<>> /\ reports = <<>>

\* no marker component is mounted and auto-injection has not been asked for
ReactIdle ==
    /\ tree = <<>> /\ rendered = <<>>
    /\ createElement = "original" /\ isPatched = FALSE
    /\ componentRegistry = <<>> /\ pathStack = <<>>
    /\ enableCalled = FALSE /\ calls = 0

\* no ComponentMapper is mounted
OverlayIdle ==
    /\ bounds = <<>> /\ effectDue = FALSE /\ runs = 0
    /\ loading = {} /\ canvas = {}

\* a development build that uses neither the React wrappers nor the overlay
NoReact == nodeEnv = "development" /\ ReactIdle /\ OverlayIdle

\* the perceptual scheme is not in use
PerceptualOff ==
    /\ tag = None /\ SynthIdle
    /\ pattern1 = <<>> /\ pattern2 = <<>> /\ shot = None /\ registry = <<>>
    /\ MatchIdle
    /\ NoReact

Init == fields \in Fields \cup Scopes /\ Idle /\ PerceptualOff

InitImage ==
    fields \in ImageFields \cup Scopes \cup {None} /\ Idle /\ PerceptualOff

\* DevTagStrip's effect: buildPayload({..., timestamp})
BuildStrip ==
    /\ pc = "idle" /\ fields # None /\ ~IsScope(fields)
    /\ scheme' = "strip"
    /\ payload' = buildPayload(fields)
    /\ wire' = payload'
    /\ pc' = "built"
    /\ UNCHANGED <<fields, edit, parsed, width, height, data, smudged, pass,
                   row, visited, result>>
    /\ UNCHANGED <<synth, match, react, overlay>>

\* DevTagShadow's effect: buildPayload({...}); the clock reads
\* fields.timestamp
BuildShadow ==
    /\ pc = "idle" /\ fields # None /\ ~IsScope(fields)
    /\ scheme' = "shadow"
    /\ payload' = buildPayloadShadow(fields, fields.timestamp)
    /\ wire' = payload'
    /\ pc' = "built"
    /\ UNCHANGED <<fields, edit, parsed, width, height, data, smudged, pass,
                   row, visited, result>>
    /\ UNCHANGED <<synth, match, react, overlay>>

\* DevTagScope's effect: buildHierarchicalPayload(scope)
BuildHierarchy ==
    /\ pc = "idle" /\ IsScope(fields)
    /\ scheme' = "hierarchy"
    /\ payload' = buildHierarchicalPayload(fields)
    /\ wire' = payload'
    /\ pc' = "built"
    /\ UNCHANGED <<fields, edit, parsed, width, height, data, smudged, pass,
                   row, visited, result>>
    /\ UNCHANGED <<synth, match, react, overlay>>

\* one byte of the encoded record takes another value before it is parsed
CorruptWire ==
    /\ pc = "built" /\ edit = <<>> /\ scheme # "hierarchy"
    /\ \E p \in 0..(Len(wire) - 1), v \in CorruptValues :
        /\ v # wire[p + 1]
        /\ wire' = [wire EXCEPT ![p + 1] = v]
        /\ edit' = <<p, v>>
    /\ UNCHANGED <<fields, scheme, payload, parsed, width, height, data,
                   smudged, pc, pass, row, visited, result>>
    /\ UNCHANGED <<synth, match, react, overlay>>

\* the decoder's parsePayload applied to the wire bytes
Parse ==
    /\ pc = "built" /\ scheme # "hierarchy"
    /\ parsed' = IF scheme = "strip" THEN parsePayload(wire, 0)
                 ELSE parsePayloadShadow(wire)
    /\ pc' = "parsed"
    /\ UNCHANGED <<fields, scheme, payload, wire, edit, width, height, data,
                   smudged, pass, row, visited, result>>
    /\ UNCHANGED <<synth, match, react, overlay>>

\* DevTagStrip's effect: renderToCanvas(canvas, payload, width)
RenderStrip ==
    /\ pc = "built" /\ scheme = "strip" /\ edit = <<>>
    /\ \E w \in StripWidths(payload) :
        /\ width' = w
        /\ data' = renderToCanvas(payload, w)
    /\ height' = STRIP_HEIGHT
    /\ pc' = "image"
    /\ UNCHANGED <<fields, scheme, payload, wire, edit, parsed, smudged,
                   pass, row, visited, result>>
    /\ UNCHANGED <<synth, match, react, overlay>>

\* DevTagShadow's effect: renderShadowWithData(canvas, payload, width, height)
RenderShadow ==
    /\ pc = "built" /\ scheme = "shadow" /\ edit = <<>>
    /\ \E size \in ShadowSizes(payload) :
        /\ width' = size[1]
        /\ height' = size[2]
        /\ data' = renderShadowWithData(payload, size[1], size[2])
    /\ pc' = "image"
    /\ UNCHANGED <<fields, scheme, payload, wire, edit, parsed, smudged,
                   pass, row, visited, result>>
    /\ UNCHANGED <<synth, match, react, overlay>>

\* DevTagScope's effect: renderShadowWithHierarchy(canvas, scope, width,
\* shadowHeight)
RenderHierarchy ==
    /\ pc = "idle" /\ IsScope(fields)
    /\ scheme' = "hierarchy"
    /\ payload' = buildHierarchicalPayload(fields)
    /\ wire' = payload'
    /\ \E size \in HierarchySizes :
        /\ width' = size[1]
        /\ height' = size[2]
        /\ data' = renderShadowWithHierarchy(fields, size[1], size[2])
    /\ pc' = "image"
    /\ UNCHANGED <<fields, edit, parsed, smudged, pass, row, visited,
                   result>>
    /\ UNCHANGED <<synth, match, react, overlay>>

\* a screenshot that holds no strip is handed to one of the decoders
LoadBlank ==
    /\ pc = "idle" /\ fields = None
    /\ scheme' \in {"strip", "shadow"}
    /\ \E size \in BlankSizes, v \in BlankValues :
        /\ width' = size[1]
        /\ height' = size[2]
        /\ data' = [k \in 1..(size[1] * size[2] * 4) |-> v]
    /\ pc' = "image"
    /\ UNCHANGED <<fields, payload, wire, edit, parsed, smudged, pass, row,
                   visited, result>>
    /\ UNCHANGED <<synth, match, react, overlay>>

\* a screenshot of a page with a strip at the top and, on some pages,
\* another at the bottom is handed to the strip decoder
LoadPageShot ==
    /\ pc = "idle" /\ fields = None
    /\ scheme' = "strip"
    /\ \E shape \in PageShots :
        /\ width' = shape[1]
        /\ data' = PageShotData(shape[1], shape[2], TopStripFields,
                                IF shape[3] THEN BottomStripFields ELSE None)
        /\ height' = Len(data') \div (4 * shape[1])
    /\ pc' = "image"
    /\ UNCHANGED <<fields, payload, wire, edit, parsed, smudged, pass, row,
                   visited, result>>
    /\ UNCHANGED <<synth, match, react, overlay>>

\* localized corruption of the rendered image: the same channel of the same
\* pixel changes in each row of S
Smudge ==
    /\ pc = "image" /\ smudged = {} /\ fields # None
    /\ \E S \in RowSets(height), spot \in SmudgeSpots(scheme) :
        /\ spot[1] < width
        /\ smudged' = S
        /\ data' = [k \in 1..Len(data) |->
                      LET idx == k - 1
                      IN  IF /\ (idx \div 4) \div width \in S
                             /\ (idx \div 4) % width = spot[1]
                             /\ idx % 4 = spot[2]
                          THEN Xor(data[k], spot[3])
                          ELSE data[k]]
    /\ UNCHANGED <<fields, scheme, payload, wire, edit, parsed, width,
                   height, pc, pass, row, visited, result>>
    /\ UNCHANGED <<synth, match, react, overlay>>

\* strip decodeFromPNG: entry, with the bottom-rows loop initialised
StripDecodeStart ==
    /\ pc = "image" /\ scheme = "strip"
    /\ pc' = "scan"
    /\ pass' = "bottom"
    /\ row' = height - STRIP_SEARCH_ROWS
    /\ UNCHANGED <<fields, scheme, payload, wire, edit, parsed, width,
                   height, data, smudged, visited, result>>
    /\ UNCHANGED <<synth, match, react, overlay>>

\* one iteration of `for (row = height - STRIP_SEARCH_ROWS; row < height; ..)`
StripBottomStep ==
    /\ pc = "scan" /\ scheme = "strip" /\ pass = "bottom"
    /\ IF row >= height
       THEN /\ pass' = "top" /\ row' = 0
            /\ UNCHANGED <<visited, result, pc>>
       ELSE IF row < 0
       THEN /\ row' = row + 1
            /\ UNCHANGED <<pass, visited, result, pc>>
       ELSE LET got == StripTryRow(data, width, row)
            IN  /\ visited' = Append(visited, row)
                /\ IF got # Null
                   THEN /\ result' = got /\ pc' = "done"
                        /\ UNCHANGED <<pass, row>>
                   ELSE /\ row' = row + 1
                        /\ UNCHANGED <<pass, result, pc>>
    /\ UNCHANGED <<fields, scheme, payload, wire, edit, parsed, width,
                   height, data, smudged>>
    /\ UNCHANGED <<synth, match, react, overlay>>

\* one iteration of `for (row = 0; row < STRIP_SEARCH_ROWS; row++)`, and the
\* final `return null`
StripTopStep ==
    /\ pc = "scan" /\ scheme = "strip" /\ pass = "top"
    /\ IF row >= STRIP_SEARCH_ROWS
       THEN /\ result' = Null /\ pc' = "done"
            /\ UNCHANGED <<pass, row, visited>>
       ELSE IF row >= height
       THEN /\ row' = row + 1
            /\ UNCHANGED <<pass, visited, result, pc>>
       ELSE LET got == StripTryRow(data, width, row)
            IN  /\ visited' = Append(visited, row)
                /\ IF got # Null
                   THEN /\ result' = got /\ pc' = "done"
                        /\ UNCHANGED <<pass, row>>
                   ELSE /\ row' = row + 1
                        /\ UNCHANGED <<pass, result, pc>>
    /\ UNCHANGED <<fields, scheme, payload, wire, edit, parsed, width,
                   height, data, smudged>>
    /\ UNCHANGED <<synth, match, react, overlay>>

\* shadow decodeFromPNG: entry
ShadowDecodeStart ==
    /\ pc = "image" /\ scheme = "shadow"
    /\ pc' = "scan"
    /\ pass' = "all"
    /\ row' = 0
    /\ UNCHANGED <<fields, scheme, payload, wire, edit, parsed, width,
                   height, data, smudged, visited, result>>
    /\ UNCHANGED <<synth, match, react, overlay>>

\* one iteration of `for (row = 0; row < height; row++)`, and the final
\* `return null`
ShadowStep ==
    /\ pc = "scan" /\ scheme = "shadow"
    /\ IF row >= height
       THEN /\ result' = Null /\ pc' = "done"
            /\ UNCHANGED <<row, visited>>
       ELSE LET got == ShadowTryRow(data, width, row)
            IN  /\ visited' = Append(visited, row)
                /\ IF got # Null
                   THEN /\ result' = got /\ pc' = "done"
                        /\ UNCHANGED row
                   ELSE /\ row' = row + 1
                        /\ UNCHANGED <<result, pc>>
    /\ UNCHANGED <<fields, scheme, payload, wire, edit, parsed, width,
                   height, data, smudged, pass>>
    /\ UNCHANGED <<synth, match, react, overlay>>

\* the codec: encode, optionally change one byte, parse

Next ==
    \/ BuildStrip
    \/ BuildShadow
    \/ BuildHierarchy
    \/ CorruptWire
    \/ Parse

Spec == Init /\ [][Next]_vars

\* the channel: encode, render, optionally smudge, decode the image
NextImage ==
    \/ BuildStrip
    \/ BuildShadow
    \/ RenderStrip
    \/ RenderShadow
    \/ RenderHierarchy
    \/ LoadBlank
    \/ LoadPageShot
    \/ Smudge
    \/ StripDecodeStart
    \/ StripBottomStep
    \/ StripTopStep
    \/ ShadowDecodeStart
    \/ ShadowStep

SpecImage == InitImage /\ [][NextImage]_vars

----------------------------------------------------------------------------
(* Properties of the codec (Spec) *)

\* a record was encoded from DevTagPayload props, parsed unchanged
ParsedClean == pc = "parsed" /\ edit = <<>>

\* the value hi * 65536 + lo is in 0 .. 2^32 - 1
IsUint32(n) == n[1] >= 0 /\ n[1] <= 65535 /\ n[2] >= 0 /\ n[2] <= 65535

\* C1: parsePayload(buildPayload(fields)) returns the viewId, sha, flags and
\* timestamp that were encoded, with checksumValid true (both decoders)
C1_RoundTrip ==
    ParsedClean =>
        /\ parsed # Null
        /\ parsed.viewId = fields.viewId
        /\ parsed.sha = fields.sha
        /\ parsed.flags = fields.flags
        /\ parsed.timestamp = fields.timestamp
        /\ parsed.checksumValid

\* the 4 bytes of buf from TLA index i, read big-endian, as <<hi, lo>>
ReadU32(buf, i) == <<buf[i] * 256 + buf[i + 1], buf[i + 2] * 256 + buf[i + 3]>>

\* the record layout, with the sha field padded by the byte `pad`
WireLayout(pad) ==
    LET n == Len(payload) - 23
    IN  /\ n >= 0
        /\ SubSeq(payload, 1, 4) = <<68, 84, 65, 71>>
        /\ payload[5] = 1
        /\ payload[6] = fields.flags
        /\ ReadU32(payload, 7) = simpleHash(fields.route)
        /\ \A i \in 1..7 :
            payload[10 + i] =
                IF i <= Len(fields.sha) THEN fields.sha[i] ELSE pad
        /\ payload[18] = n
        /\ SubSeq(payload, 19, 18 + n) = stringToBytes(fields.viewId)
        /\ ReadU32(payload, 19 + n) = fields.timestamp
        /\ \A k \in 1..Len(payload) : payload[k] \in 0..255
        /\ buildPayload(fields) = buildPayloadShadow(fields, fields.timestamp)

Encoded == pc \in {"built", "parsed"} /\ scheme \in {"strip", "shadow"}

LastIsXorOfRest(bytes) ==
    /\ bytes # <<>>
    /\ \A i \in 0..7 :
        Cardinality({k \in 1..Len(bytes) : Bit(bytes[k], i) = 1}) % 2 = 0

\* C3: the last byte of every record of buildPayload and of
\* buildHierarchicalPayload is the XOR of the bytes before it, and
\* parsePayload reports checksumValid exactly when the byte at the checksum
\* offset (22 + viewIdLen from the magic) is the XOR of the bytes before it
C3_ChecksumInvariant ==
    /\ pc \in {"built", "parsed"} => LastIsXorOfRest(payload)
    /\ (pc = "parsed" /\ parsed # Null) =>
        LET off == 22 + wire[18]
        IN  parsed.checksumValid <=>
                (off < Len(wire) /\ LastIsXorOfRest(SubSeq(wire, 1, off + 1)))

C3_Witness ==
    /\ pc = "parsed" /\ edit # <<>> /\ parsed # Null /\ parsed.checksumValid

C3_WitnessHierarchy == pc = "built" /\ scheme = "hierarchy"

\* one byte other than the checksum byte was changed, then the record parsed
ParsedCorrupt ==
    pc = "parsed" /\ edit # <<>> /\ edit[1] # Len(wire) - 1

\* C5 as stated: changing any single byte other than the checksum byte
\* makes the decode report checksumValid false
C5_AnyByteDetected ==
    ParsedCorrupt => (parsed = Null \/ ~parsed.checksumValid)

\* C5 as amended: changing any single byte other than the viewIdLen byte
\* (offset 17) and the checksum byte makes the decode report checksumValid
\* false
C5_FieldByteDetected ==
    (ParsedCorrupt /\ edit[1] # 17) => (parsed = Null \/ ~parsed.checksumValid)

C5_Witness ==
    /\ ParsedCorrupt /\ edit[1] = 20 /\ scheme = "strip"
    /\ ~parsed.checksumValid

\* C6: the decoded routeHash is in 0 .. 2^32 - 1 and equals simpleHash(route)
C6_RouteHashUnsigned ==
    (ParsedClean /\ parsed # Null) =>
        /\ IsUint32(parsed.routeHash)
        /\ parsed.routeHash = simpleHash(fields.route)

\* C7: the decoded timestamp equals the encoded one, also from 2^31 on, and
\* whatever the bytes it is never negative
C7_TimestampUnsigned ==
    /\ (pc = "parsed" /\ parsed # Null) => IsUint32(parsed.timestamp)
    /\ (ParsedClean /\ parsed # Null) => parsed.timestamp = fields.timestamp

C7_Witness ==
    /\ ParsedClean /\ scheme = "strip"
    /\ fields.timestamp[1] >= 32768 /\ parsed.timestamp = fields.timestamp

----------------------------------------------------------------------------
(* Properties of the channel (SpecImage) *)

\* the rows decodeFromPNG looks at
SearchedRows ==
    IF scheme = "strip"
    THEN {r \in 0..(height - 1) :
            r >= height - STRIP_SEARCH_ROWS \/ r < STRIP_SEARCH_ROWS}
    ELSE 0..(height - 1)

\* R, G, B bytes of row r, three per pixel
RowRgb(r) ==
    [k \in 1..(3 * width) |->
        data[(r * width + (k - 1) \div 3) * 4 + ((k - 1) % 3) + 1]]

\* the bytes the alpha LSBs of row r spell, most significant bit first
RowAlphaBytes(r) ==
    LET n == IF width < 512 THEN width ELSE 512
        bit(j) == data[(r * width + j) * 4 + 4] % 2
    IN  [b \in 1..(n \div 8) |->
            128 * bit(8 * b - 8) + 64 * bit(8 * b - 7) + 32 * bit(8 * b - 6)
            + 16 * bit(8 * b - 5) + 8 * bit(8 * b - 4) + 4 * bit(8 * b - 3)
            + 2 * bit(8 * b - 2) + bit(8 * b - 1)]

\* the four magic bytes occur somewhere in the bytes
ContainsMagic(bytes) ==
    \E i \in 1..(Len(bytes) - 3) : SubSeq(bytes, i, i + 3) = <<68, 84, 65, 71>>

\* some searched row carries the magic bytes where its decoder looks
MagicInSearchedRows ==
    \E r \in SearchedRows :
        IF scheme = "strip" THEN ContainsMagic(RowRgb(r))
        ELSE /\ Len(RowAlphaBytes(r)) >= 4
             /\ SubSeq(RowAlphaBytes(r), 1, 4) = <<68, 84, 65, 71>>

\* C4: decodeFromPNG (both decoders) returns null or a payload whose
\* checksumValid is true, and null when no searched row has the magic bytes
C4_ValidOrNull ==
    pc = "done" =>
        /\ result = Null \/ result.checksumValid
        /\ ~MagicInSearchedRows => result = Null

C4_Witness ==
    /\ pc = "done" /\ scheme = "strip" /\ smudged # {}
    /\ MagicInSearchedRows /\ result = Null

ScenarioA ==
    /\ fields # None /\ ~IsScope(fields)
    /\ fields.viewId = BILLING_02 /\ fields.route = SettingsBilling
    /\ fields.sha = Abc1234 /\ fields.flags = 0

ScenarioADecoded ==
    /\ result # Null
    /\ result.viewId = BILLING_02 /\ result.sha = Abc1234
    /\ result.checksumValid

\* C8 as stated: scenario A embedded in the alpha LSBs of a 100 x 4 strip
\* decodes to viewId "BILLING_02", sha "abc1234", checksumValid true
C8_ScenarioA100x4 ==
    (/\ ScenarioA /\ scheme = "shadow" /\ smudged = {} /\ pc = "done"
     /\ width = 100 /\ height = 4) => ScenarioADecoded

\* C8 as amended: scenario A embedded in the alpha LSBs of a 264 x 4 strip
\* (one pixel for each of the record's 8 * 33 bits) decodes to viewId
\* "BILLING_02", sha "abc1234", checksumValid true
C8_ScenarioA264x4 ==
    (/\ ScenarioA /\ scheme = "shadow" /\ smudged = {} /\ pc = "done"
     /\ width = 264 /\ height = 4) => ScenarioADecoded

C8_Witness ==
    /\ ScenarioA /\ scheme = "shadow" /\ smudged = {} /\ pc = "done"
    /\ width = 264 /\ height = 4 /\ ScenarioADecoded

\* C9: for a strip at least ceil(length / 3) pixels wide renderToCanvas
\* writes the record one byte per R, G, B channel, repeated across the row,
\* the same in all 4 rows, alpha 255, and the strip decoder returns the
\* encoded viewId, flags and timestamp with checksumValid true
C9_BytePlaneRoundTrip ==
    (/\ scheme = "strip" /\ fields # None /\ smudged = {}
     /\ pc \in {"image", "scan", "done"}
     /\ 3 * width >= Len(payload)) =>
        /\ height = 4
        /\ \A r \in 0..3, x \in 0..(width - 1), ch \in 0..3 :
            data[(r * width + x) * 4 + ch + 1] =
                IF ch = 3 THEN 255
                ELSE LET o == (x % ((Len(payload) + 2) \div 3)) * 3 + ch
                     IN  IF o < Len(payload) THEN payload[o + 1] ELSE 0
        /\ pc = "done" =>
            /\ result # Null
            /\ result.viewId = fields.viewId
            /\ result.flags = fields.flags
            /\ result.timestamp = fields.timestamp
            /\ result.checksumValid

\* a checksum-valid record starts at some occurrence of the magic in row r
ValidRecordInRow(r) ==
    \E i \in 0..(3 * width - 4) :
        /\ SubSeq(RowRgb(r), i + 1, i + 4) = <<68, 84, 65, 71>>
        /\ parsePayload(RowRgb(r), i).checksumValid

\* C10: when a searched row holds a checksum-valid record at some occurrence
\* of the magic, the strip decoder returns a payload, also when an earlier
\* occurrence of the magic in that row fails validation
C10_LaterMagicTried ==
    (/\ scheme = "strip" /\ pc = "done"
     /\ \E r \in SearchedRows : ValidRecordInRow(r)) => result # Null

----------------------------------------------------------------------------
(* Row search of the two decoders                                          *)

\* the rows from lo to hi, ascending
RowsFromTo(lo, hi) == [i \in 1..(hi - lo + 1) |-> lo + i - 1]

\* the rows in the order the claim gives: the strip decoder the last eight
\* rows, then the first eight; the shadow decoder every row
SearchOrder ==
    IF scheme = "strip"
    THEN RowsFromTo(IF height > 8 THEN height - 8 ELSE 0, height - 1)
         \o RowsFromTo(0, IF height > 8 THEN 7 ELSE height - 1)
    ELSE RowsFromTo(0, height - 1)

\* what examining row r yields: a validated payload or Null
TryRow(r) ==
    IF scheme = "strip" THEN StripTryRow(data, width, r)
    ELSE ShadowTryRow(data, width, r)

\* C23: the rows are examined in the search order (strip: rows height-8 ..
\* height-1 ascending, then rows 0 .. 7 ascending, without the rows outside
\* the image; shadow: rows 0 .. height-1); every examined row before the
\* last one failed to validate; the search ends with the payload of the
\* first row that validates, or with null after the whole order has been
\* examined; at most 16 (strip) or height (shadow) rows are examined.
C23_RowSearchOrder ==
    (pc \in {"scan", "done"} /\ scheme \in {"strip", "shadow"}) =>
        /\ Len(visited) <= Len(SearchOrder)
        /\ visited = SubSeq(SearchOrder, 1, Len(visited))
        /\ Len(visited) <= (IF scheme = "strip" THEN 16 ELSE height)
        /\ \A i \in 1..(Len(visited) - 1) : TryRow(visited[i]) = Null
        /\ (pc = "scan" /\ visited # <<>>) =>
               TryRow(visited[Len(visited)]) = Null
        /\ (pc = "done" /\ result = Null) =>
               /\ visited = SearchOrder
               /\ \A i \in 1..Len(visited) : TryRow(visited[i]) = Null
        /\ (pc = "done" /\ result # Null) =>
               /\ visited # <<>>
               /\ result = TryRow(visited[Len(visited)])

\* a screenshot of 16 rows with one strip in the top rows and a different
\* one in the bottom rows: the decoder has returned the bottom strip's
\* payload from row 12, the first row of the bottom strip
C23_Witness ==
    /\ pc = "done" /\ scheme = "strip" /\ fields = None /\ height = 16
    /\ StripTryRow(data, width, 0) # Null
    /\ StripTryRow(data, width, 0) # StripTryRow(data, width, 15)
    /\ visited = <<8, 9, 10, 11, 12>>
    /\ result = StripTryRow(data, width, 15)

\* the bytes the decoder of the scheme reads from row r
RowBytes(r) ==
    IF scheme = "strip" THEN extractBytesFromRow(data, width, r)
    ELSE bitsToBytes(extractBitsFromRow(data, width, r, MaxPayloadBits))

\* where the decoder finds the magic in the bytes, or -1
MagicIndex(bytes) ==
    IF scheme = "strip" THEN findMagic(bytes)
    ELSE IF hasMagic(bytes) THEN 0 ELSE -1

\* the record that starts at `start` runs past the end of the bytes: the
\* viewIdLen prefix (record byte 17) is not there, or the checksum, which
\* follows the viewId and the four timestamp bytes, is not there
RunsPast(bytes, start) ==
    \/ start + 17 >= Len(bytes)
    \/ start + 22 + bytes[start + 18] >= Len(bytes)

\* what parsePayload of the scheme returns for the record at `start`
ParseAt(bytes, start) ==
    IF scheme = "strip" THEN parsePayload(bytes, start)
    ELSE parsePayloadShadow(bytes)

\* row r holds the magic and a record that runs past the end of the row
MalformedRow(r) ==
    /\ MagicIndex(RowBytes(r)) # -1
    /\ RunsPast(RowBytes(r), MagicIndex(RowBytes(r)))

\* C24: for a row that holds the magic bytes and whose record runs past the
\* end of the row's bytes, parsePayload returns a record with checksumValid
\* false (no error), the row yields nothing, and decodeFromPNG goes on to
\* the next row: when some searched row validates, a validated payload is
\* returned.
C24_MalformedRecoverable ==
    (/\ pc \in {"image", "scan", "done"}
     /\ scheme \in {"strip", "shadow"}) =>
        /\ \A r \in 0..(height - 1) :
               MalformedRow(r) =>
                   /\ ParseAt(RowBytes(r), MagicIndex(RowBytes(r)))
                          .checksumValid = FALSE
                   /\ TryRow(r) = Null
        /\ (pc = "done" /\ \E r \in SearchedRows : TryRow(r) # Null) =>
               /\ result # Null
               /\ result.checksumValid

\* the viewIdLen byte of row 0 was changed so that the record runs past
\* the row; the decoder examined row 0 and returned the record of row 1
C24_Witness ==
    /\ pc = "done" /\ smudged = {0}
    /\ MalformedRow(0)
    /\ visited = <<0, 1>>
    /\ result # Null /\ result = TryRow(1)
    /\ result.viewId = fields.viewId

\* the payload fits the rows of the shadow and the decoder's 512 bits, and
\* rows 0, 2 and 4 are inside the image
Redundant ==
    /\ scheme = "shadow" /\ fields # None
    /\ pc \in {"image", "scan", "done"}
    /\ 8 * Len(payload) <= width
    /\ 8 * Len(payload) <= MaxPayloadBits
    /\ height >= 5

\* C28: when the payload's bits fit the image width and the decoder's 512
\* bits and the image has at least 5 rows, rows 0, 2 and 4 of the rendered
\* shadow carry the payload's bits; after a corruption of at most two of
\* these three rows, each of which then fails validation, the shadow
\* decoder returns the record of the encoded payload, read from the first
\* intact row among rows 0, 2 and 4.
C28_RowRedundancy ==
    Redundant =>
        /\ smudged = {} =>
               \A r \in {0, 2, 4} :
                   extractBitsFromRow(data, width, r, 8 * Len(payload))
                       = ToBits(payload)
        /\ (/\ pc = "done"
            /\ smudged \subseteq {0, 2, 4}
            /\ Cardinality(smudged) <= 2
            /\ \A r \in smudged : ShadowTryRow(data, width, r) = Null) =>
               /\ result = parsePayloadShadow(payload)
               /\ result.checksumValid
               /\ \E r \in {0, 2, 4} \ smudged :
                      /\ visited = RowsFromTo(0, r)
                      /\ \A q \in {0, 2, 4} : q < r => q \in smudged

\* rows 0 and 2 were corrupted and fail validation; the decoder returned
\* the payload from row 4
C28_Witness ==
    /\ Redundant /\ pc = "done" /\ smudged = {0, 2}
    /\ ShadowTryRow(data, width, 0) = Null
    /\ ShadowTryRow(data, width, 2) = Null
    /\ visited = <<0, 1, 2, 3, 4>>
    /\ result = parsePayloadShadow(payload)

----------------------------------------------------------------------------
(* Bit-plane writers: what the writes leave alone                          *)

\* the image data of the gradient, before a writer stores its bits: black
\* with the alpha of the row
GradientData(w, h, alpha(_, _)) ==
    [k \in 1..(w * h * 4) |->
        IF (k - 1) % 4 = 3 THEN alpha(((k - 1) \div 4) \div w, h) ELSE 0]

\* the canvas holds what a writer put there
Written == data # <<>> /\ fields # None /\ smudged = {}

\* index idx of the image data (0-based) lies in the RGB plane of rows 0,
\* floor(height / 2), height - 1; its payload bit is number 3x + channel
RgbBitIndex(idx) == (3 * ((idx \div 4) % width)) + (idx % 4)

InRgbPlane(idx) ==
    /\ idx % 4 < 3
    /\ (idx \div 4) \div width \in {0, height \div 2, height - 1}

\* index idx lies in the alpha plane of rows 0, 2, 4; its payload bit is
\* number x
AlphaBitIndex(idx) == (idx \div 4) % width

InAlphaPlane(idx) ==
    /\ idx % 4 = 3
    /\ (idx \div 4) \div width \in {0, 2, 4}

\* against the image data `before`, the data holds bit number index(idx) in
\* the least significant bit of every position of the plane that a payload
\* bit falls on, with the upper seven bits as before, and is as before
\* everywhere else
OnlyPlaneWritten(before, bits, inPlane(_), index(_)) ==
    /\ Len(data) = Len(before)
    /\ \A k \in 1..Len(data) :
           IF inPlane(k - 1) /\ index(k - 1) < Len(bits)
           THEN /\ data[k] \div 2 = before[k] \div 2
                /\ data[k] % 2 = bits[index(k - 1) + 1]
           ELSE data[k] = before[k]

\* C20: the RGB-LSB writer changes only the least significant bit of R, G
\* and B of the pixels of rows 0, floor(height / 2) and height - 1 that a
\* payload bit falls on, writing the same bit sequence into each of these
\* rows; the alpha-LSB writer changes only the least significant bit of
\* alpha in those of rows 0, 2 and 4 that lie inside the image.  The upper
\* seven bits of a written channel, every other channel, every other row
\* and the pixels after the last payload bit are as the gradient left them.
C20_WritesOnlyDesignatedBits ==
    /\ (Written /\ scheme = "hierarchy") =>
           OnlyPlaneWritten(GradientData(width, height, HierarchyAlpha),
                            ToBits(payload), InRgbPlane, RgbBitIndex)
    /\ (Written /\ scheme = "shadow") =>
           OnlyPlaneWritten(GradientData(width, height, GradientAlpha),
                            ToBits(payload), InAlphaPlane, AlphaBitIndex)

\* a writer has written: a scope shadow of two rows whose record ends
\* before the last pixel, or a five-row shadow whose row 4 carries a bit
C20_Witness ==
    /\ Written
    /\ \/ /\ scheme = "hierarchy" /\ height = 2
          /\ Len(ToBits(payload)) <= 3 * (width - 1)
          /\ \E k \in 1..Len(data) : data[k] % 2 = 1 /\ (k - 1) % 4 < 3
       \/ /\ scheme = "shadow" /\ height = 5
          /\ \E k \in 1..Len(data) :
                 /\ (k - 1) % 4 = 3 /\ ((k - 1) \div 4) \div width = 4
                 /\ data[k] # GradientAlpha(4, height)

----------------------------------------------------------------------------
(* Perceptual scheme: seed key, string hash, SeededRandom                  *)

\* a 32-bit pair as an integer; only for pairs below 2^31
PairToInt(n) == n[1] * 65536 + n[2]

\* n % m for an unsigned 32-bit pair n and 0 < m < 2^23
PairMod(n, m) == (((((n[1] * 256) % m) * 256) % m) + (n[2] % m)) % m

\* a % m of JavaScript: the sign of the result is the sign of a
JsRem(a, m) == IF a >= 0 THEN a % m ELSE -((-a) % m)

\* n >> k for an unsigned 32-bit pair n read as a signed 32-bit value,
\* 0 < k <= 16
ShiftRightSigned(n, k) ==
    LET hi == IF n[1] >= 32768 THEN n[1] - 65536 ELSE n[1]
    IN  hi * (2 ^ (16 - k)) + (n[2] \div (2 ^ k))

RECURSIVE Digits(_)
\* the decimal digits of a natural number, as character codes
Digits(n) ==
    IF n < 10 THEN <<48 + n>> ELSE Append(Digits(n \div 10), 48 + (n % 10))

RECURSIVE Quote(_)
\* the body of a JSON string literal: '"' and '\' get a backslash
Quote(str) ==
    IF str = <<>> THEN <<>>
    ELSE (IF Head(str) \in {34, 92} THEN <<92, Head(str)>> ELSE <<Head(str)>>)
         \o Quote(Tail(str))

\* JSON.stringify({ p: path, t: type, d: depth })
Stringify(path, type, depth) ==
    <<123, 34, 112, 34, 58, 34>> \o Quote(path)
    \o <<34, 44, 34, 116, 34, 58, 34>> \o Quote(type)
    \o <<34, 44, 34, 100, 34, 58>> \o Digits(depth) \o <<125>>

\* DevTag.tsx hash, the loop body: ((h << 5) - h + c) | 0
hashStep(h, c) ==
    LET lo == h[2] * 32 - h[2] + c
        hi == h[1] * 32 - h[1] + (lo \div 65536)
    IN  <<hi % 65536, lo % 65536>>

\* DevTag.tsx hash(str): the loop, then h >>> 0.  run(h, i, j) is h after
\* the iterations for the characters i..j: those for i..mid, then those
\* for mid+1..j
hash(str) ==
    LET RECURSIVE run(_, _, _)
        run(h, i, j) ==
            IF i > j THEN h
            ELSE IF i = j THEN hashStep(h, str[i])
            ELSE LET mid == (i + j) \div 2
                     a == run(h, i, mid)
                 IN  IF a = <<>> THEN a ELSE run(a, mid + 1, j)
    IN  ToUint32(run(<<0, 0>>, 1, Len(str)))

\* the loop body with the subtraction turned into an addition:
\* ((h << 5) + h + c) | 0
hashStepAdd(h, c) ==
    LET lo == h[2] * 32 + h[2] + c
        hi == h[1] * 32 + h[1] + (lo \div 65536)
    IN  <<hi % 65536, lo % 65536>>

\* decode.ts hash, the loop body, with h << 5 cut to 32 bits first
decoderHashStep(h, c) ==
    LET shl == <<(h[1] * 32 + ((h[2] * 32) \div 65536)) % 65536,
                 (h[2] * 32) % 65536>>
        lo == shl[2] - h[2] + c
        hi == shl[1] - h[1] + (lo \div 65536)
    IN  <<hi % 65536, lo % 65536>>

\* decode.ts hash(str)
decoderHash(str) ==
    LET RECURSIVE run(_, _, _)
        run(h, i, j) ==
            IF i > j THEN h
            ELSE IF i = j THEN decoderHashStep(h, str[i])
            ELSE LET mid == (i + j) \div 2
                     a == run(h, i, mid)
                 IN  IF a = <<>> THEN a ELSE run(a, mid + 1, j)
    IN  ToUint32(run(<<0, 0>>, 1, Len(str)))

Modulus == 233280
Multiplier == 9301
Increment == 49297

\* (seed * 9301 + 49297) % 233280, exact in double arithmetic because the
\* product stays below 2^53; evaluated here as ((seed * 71) * 131 + 49297)
\* with a reduction after each product (9301 = 71 * 131)
LcgStep(seed, mul, inc, mod) ==
    LET s == PairMod(seed, mod)
        t == ((((s * 71) % mod) * (mul \div 71)) + ((s * (mul % 71)) % mod)
              + inc) % mod
    IN  <<t \div 65536, t % 65536>>

\* SeededRandom.next without the reduction modulo 233280
nextUnreduced(seed) ==
    LET t == PairMod(seed, Modulus) + Increment
    IN  <<t \div 65536, t % 65536>>

\* DevTag.tsx SeededRandom.next: the new this.seed
next(seed) == LcgStep(seed, Multiplier, Increment, Modulus)

\* decode.ts SeededRandom.next: the new this.seed
decoderNext(seed) == LcgStep(seed, Multiplier, Increment, Modulus)

\* the value next() returns, seed / 233280, in units of 1/233280
Returned(seed) == PairToInt(seed)

----------------------------------------------------------------------------
(* Perceptual scheme: pattern synthesis                                    *)
(*                                                                         *)
(* Real quantities are held in fixed point: amplitudes, sines and gray     *)
(* levels in units of 1/Scale, angles as a number of 1/Modulus turns.      *)
(* Math.sin is evaluated by its Taylor series in that fixed point.         *)

Scale == 10000

\* the state of the rng after each of the first n calls of next()
RECURSIVE drawsFrom(_, _)
drawsFrom(seed, n) ==
    IF n = 0 THEN <<>> ELSE <<next(seed)>> \o drawsFrom(next(seed), n - 1)

\* the same for the decoder's SeededRandom
RECURSIVE decoderDrawsFrom(_, _)
decoderDrawsFrom(seed, n) ==
    IF n = 0 THEN <<>>
    ELSE <<decoderNext(seed)>> \o decoderDrawsFrom(decoderNext(seed), n - 1)

\* DevTag.tsx: freq1, freq2, freq3
Frequencies(seed) ==
    <<2 + PairMod(seed, 5),
      6 + JsRem(ShiftRightSigned(seed, 8), 5),
      12 + JsRem(ShiftRightSigned(seed, 16), 6)>>

\* decode.ts: freq1, freq2, freq3
decoderFrequencies(seed) ==
    <<2 + PairMod(seed, 5),
      6 + JsRem(ShiftRightSigned(seed, 8), 5),
      12 + JsRem(ShiftRightSigned(seed, 16), 6)>>

\* Math.sin of j/Modulus turns for 0 <= j <= Modulus/4, times Scale
SinQuarter(j) ==
    LET th == (j * 1309) \div 4860      \* the angle in radians, times Scale
        t2 == (th * th) \div Scale
        a4 == Scale - (t2 \div 72)
        a3 == Scale - ((t2 * a4) \div (42 * Scale))
        a2 == Scale - ((t2 * a3) \div (20 * Scale))
        a1 == Scale - ((t2 * a2) \div (6 * Scale))
    IN  (th * a1) \div Scale

\* Math.sin of k/Modulus turns, times Scale
Sin(k) ==
    LET q == Modulus \div 4
        j == k % Modulus
    IN  IF j <= q THEN SinQuarter(j)
        ELSE IF j <= 2 * q THEN SinQuarter(2 * q - j)
        ELSE IF j <= 3 * q THEN -SinQuarter(j - 2 * q)
        ELSE -SinQuarter(4 * q - j)

\* (val1 + val2 + val3) / 3 * intensity * 255 at pixel (x, y), times Scale;
\* draws are the six rng states, intensity is in thousandths
Variation(freq, draws, x, y, w, h, intensity) ==
    LET d(i) == Returned(draws[i])
        amp1 == 4000 + ((d(4) * 3000) \div Modulus)
        amp2 == 3000 + ((d(5) * 3000) \div Modulus)
        amp3 == 3000 + ((d(6) * 2000) \div Modulus)
        val1 == (Sin(((x * freq[1] * Modulus) \div w) + d(1)) * amp1)
                \div Scale
        val2 == (Sin(((y * freq[2] * Modulus) \div h) + d(2)) * amp2)
                \div Scale
        val3 == (Sin((((x * freq[3] * Modulus) \div w)
                      + ((y * freq[3] * Modulus) \div h)) + d(3)) * amp3)
                \div Scale
        combined == (val1 + val2 + val3) \div 3
    IN  (combined * intensity * 255) \div 1000

\* DevTag.tsx generatePerceptualPattern: the gray stored in pixels[idx],
\* pixels[idx + 1] and pixels[idx + 2] of every pixel, row by row
generatePerceptualPattern(seed, draws, w, h, intensity) ==
    [y \in 1..h |-> [x \in 1..w |->
        LET variation ==
                Variation(Frequencies(seed), draws, x - 1, y - 1, w, h,
                          intensity) \div Scale        \* Math.floor
        IN  Clamp(245 + variation)]]

\* decode.ts generatePattern: pattern[y][x], times Scale
generatePattern(seed, draws, tileSize, intensity) ==
    [y \in 1..tileSize |-> [x \in 1..tileSize |->
        245 * Scale
        + Variation(decoderFrequencies(seed), draws, x - 1, y - 1, tileSize,
                    tileSize, intensity)]]

\* demo.tsx generatePattern (the overlay of the auto mode): the gray stored
\* in pixels[idx], pixels[idx + 1] and pixels[idx + 2]
overlayPattern(seed, w, h, intensity) ==
    LET freq1 == 2 + PairMod(seed, 5)
        freq2 == 6 + JsRem(ShiftRightSigned(seed, 8), 5)
    IN  [y \in 1..h |-> [x \in 1..w |->
            LET val == ((Sin(((x - 1) * freq1 * Modulus) \div w) * 5) \div 10)
                       + ((Sin(((y - 1) * freq2 * Modulus) \div h) * 5)
                          \div 10)
            IN  Clamp(245 + ((((val * intensity * 255) \div 1000)) \div Scale))]]

----------------------------------------------------------------------------
(* Perceptual scheme: the synthesis pipeline                               *)

MaxTagDepth == 2

\* "Page", "Page/Btn", and a path with a quote and a non-ASCII character
TagPaths ==
    {<<80, 97, 103, 101>>, <<80, 97, 103, 101, 47, 66, 116, 110>>,
     <<34, 233>>}

\* "page", "button"
TagTypes == {<<112, 97, 103, 101>>, <<98, 117, 116, 116, 111, 110>>}

\* patternSize / tileSize
TileSizes == {2, 4}

\* intensity in thousandths: 0.08 (the default) and 0.15 (the demo)
Intensities == {80, 150}

Tags ==
    [p : TagPaths, t : TagTypes, d : 1..MaxTagDepth, size : TileSizes,
     intensity : Intensities]

\* the seed key of a component
SeedKey(c) == Stringify(c.p, c.t, c.d)

\* nothing of the exact scheme or of the matcher is in use
OnlySynth ==
    /\ fields = None /\ Idle
    /\ pattern1 = <<>> /\ pattern2 = <<>> /\ shot = None /\ registry = <<>>
    /\ MatchIdle
    /\ NoReact

InitPattern == tag \in Tags /\ SynthIdle /\ OnlySynth

\* DevTag's effect: generatePerceptualPattern(data, patternSize,
\* patternSize, intensity)
EncoderGenerate ==
    /\ encSeed = None
    /\ LET seed == hash(SeedKey(tag))
           draws == drawsFrom(seed, 6)
       IN  /\ encSeed' = seed
           /\ encDraws' = draws
           /\ encRng' = draws[6]
           /\ encTile' = generatePerceptualPattern(seed, draws, tag.size,
                                                   tag.size, tag.intensity)
    /\ UNCHANGED <<tag, decSeed, decRng, decDraws, decTile, autoTile>>
    /\ UNCHANGED <<exact, match, react, overlay>>

\* build's call generatePattern(data, tileSize, intensity) for the entry
\* with the same path, type and depth
DecoderGenerate ==
    /\ decSeed = None
    /\ LET seed == decoderHash(SeedKey(tag))
           draws == decoderDrawsFrom(seed, 6)
       IN  /\ decSeed' = seed
           /\ decDraws' = draws
           /\ decRng' = draws[6]
           /\ decTile' = generatePattern(seed, draws, tag.size, tag.intensity)
    /\ UNCHANGED <<tag, encSeed, encRng, encDraws, encTile, autoTile>>
    /\ UNCHANGED <<exact, match, react, overlay>>

\* ComponentMapper's effect: generatePattern(path, tileSize, tileSize,
\* intensity)
OverlayGenerate ==
    /\ autoTile = None
    /\ autoTile' = overlayPattern(hash(tag.p), tag.size, tag.size,
                                  tag.intensity)
    /\ UNCHANGED <<tag, encSeed, encRng, encDraws, encTile, decSeed, decRng,
                   decDraws, decTile>>
    /\ UNCHANGED <<exact, match, react, overlay>>

NextPattern == EncoderGenerate \/ DecoderGenerate \/ OverlayGenerate

SpecPattern == InitPattern /\ [][NextPattern]_vars

----------------------------------------------------------------------------
(* Perceptual scheme: properties of the synthesis                          *)

\* a + b modulo 2^32 on pairs
PairAdd(a, b) ==
    LET lo == a[2] + b[2]
    IN  <<(a[1] + b[1] + (lo \div 65536)) % 65536, lo % 65536>>

\* a * k modulo 2^32 for a pair a and 0 <= k < 32768
PairTimesSmall(a, k) ==
    LET lo == a[2] * k
    IN  <<(a[1] * k + (lo \div 65536)) % 65536, lo % 65536>>

\* a * 31^k modulo 2^32
TimesPow31(a, k) ==
    LET RECURSIVE times(_, _)
        times(x, n) ==
            IF n = 0 THEN x
            ELSE IF n = 1 THEN PairTimesSmall(x, 31)
            ELSE LET y == times(x, n \div 2)
                 IN  IF y = <<>> THEN y ELSE times(y, n - (n \div 2))
    IN  times(a, k)

\* the sum over i of charCode_i * 31^(n-1-i), modulo 2^32
PolySum(str) ==
    LET n == Len(str)
        RECURSIVE sum(_, _)
        sum(i, j) ==
            IF i > j THEN <<0, 0>>
            ELSE IF i = j
                 THEN TimesPow31(<<str[i] \div 65536, str[i] % 65536>>, n - i)
            ELSE LET mid == (i + j) \div 2
                     a == sum(i, mid)
                 IN  IF a = <<>> THEN a ELSE PairAdd(a, sum(mid + 1, j))
    IN  sum(1, n)

\* the strings hashed by the running system
HashedStrings == {SeedKey(tag), tag.p}

\* C11: every copy of the string hash returns, for every string, the
\* polynomial sum of charCode_i * 31^(n-1-i) reduced modulo 2^32, a value
\* in 0..2^32-1, and the copies agree with each other
C11_PolynomialHash ==
    \A str \in HashedStrings :
        /\ hash(str) = PolySum(str)
        /\ decoderHash(str) = PolySum(str)
        /\ simpleHash(str) = PolySum(str)
        /\ IsUint32(hash(str))
        /\ encSeed # None => encSeed = PolySum(SeedKey(tag))
        /\ decSeed # None => decSeed = encSeed \/ encSeed = None

\* both sides have hashed a key long enough to wrap around 2^32, to a
\* value with the top bit set
C11_Witness ==
    /\ encSeed # None /\ decSeed # None
    /\ encSeed[1] >= 32768
    /\ Len(SeedKey(tag)) > 7

\* both generators have produced a tile for the component
BothGenerated == encTile # None /\ decTile # None

\* C12: the gray the encoder writes at each (x, y) of the tile, in
\* generatePerceptualPattern and in the overlay's generatePattern, is the
\* value the decoder's generatePattern computes at (x, y) for the entry
\* with the same path, type and depth
C12_SamePattern ==
    decTile # None =>
        \A y \in 1..tag.size, x \in 1..tag.size :
            /\ encTile # None => encTile[y][x] * Scale = decTile[y][x]
            /\ autoTile # None => autoTile[y][x] * Scale = decTile[y][x]

\* the three frequencies lie in 2..6, 6..10 and 12..17
InRanges(freq) ==
    /\ freq[1] \in 2..6
    /\ freq[2] \in 6..10
    /\ freq[3] \in 12..17

\* C13: for every seed produced by hash, also one with the top bit set,
\* freq1 is in 2..6, freq2 in 6..10 and freq3 in 12..17, in the encoder
\* and in the decoder
C13_FrequencyRanges ==
    /\ encSeed # None => InRanges(Frequencies(encSeed))
    /\ decSeed # None => InRanges(decoderFrequencies(decSeed))

\* t is (s * 9301 + 49297) mod 233280, decided modulo 64, 729 and 5
\* (233280 = 64 * 729 * 5) on the residues of the pair s
IsLcgSuccessor(s, t) ==
    /\ t \in 0..(Modulus - 1)
    /\ \A m \in {64, 729, 5} :
           t % m = ((PairMod(s, m) * (Multiplier % m)) + Increment) % m

\* the rng states after the draws: each follows from the one before by the
\* recurrence, starting from the seed
IsLcgSequence(seed, draws) ==
    \A i \in 1..Len(draws) :
        /\ draws[i][1] \in 0..3 /\ draws[i][2] \in 0..65535
        /\ IsLcgSuccessor(IF i = 1 THEN seed ELSE draws[i - 1],
                          PairToInt(draws[i]))
        /\ Returned(draws[i]) >= 0 /\ Returned(draws[i]) < Modulus

\* C14: the rng is seeded with hash(seedKey); every draw replaces the state
\* by (state * 9301 + 49297) mod 233280 and returns state / 233280, so the
\* state stays in 0..233279 and the returned value in [0, 1); the decoder
\* obtains the same six values in the same order as the encoder
C14_SameLcgSequence ==
    /\ encSeed # None =>
           /\ encSeed = hash(SeedKey(tag))
           /\ Len(encDraws) = 6 /\ IsLcgSequence(encSeed, encDraws)
           /\ encRng = encDraws[6]
    /\ decSeed # None =>
           /\ decSeed = hash(SeedKey(tag))
           /\ Len(decDraws) = 6 /\ IsLcgSequence(decSeed, decDraws)
           /\ decRng = decDraws[6]
    /\ (encSeed # None /\ decSeed # None) => encDraws = decDraws

\* both sides have drawn their six values from a seed above 2^31
C14_Witness ==
    /\ BothGenerated
    /\ encSeed[1] >= 32768
    /\ Len(encDraws) = 6 /\ Len(decDraws) = 6

----------------------------------------------------------------------------
(* JavaScript numbers (IEEE 754 binary64)                                  *)
(*                                                                         *)
(* A natural number of any size is a sequence of limbs in base 2^15, least *)
(* significant first, without leading zero limbs (zero is <<>>).  A finite *)
(* nonzero double is <<sign, m, e>> standing for sign * m * 2^e with       *)
(* 2^52 <= m < 2^53; zero is FZero, NaN is FNaN.  Every operation returns  *)
(* the exact result rounded to nearest, ties to even.  Overflow to         *)
(* Infinity and subnormal results are outside the magnitudes that occur.   *)

Limb == 32768

\* the limbs of a without leading zeros
BigNorm(a) ==
    LET top == {i \in 1..Len(a) : a[i] # 0}
    IN  IF top = {} THEN <<>>
        ELSE SubSeq(a, 1, CHOOSE i \in top : \A j \in top : j <= i)

\* limb i of a (1-based), 0 beyond the end
BigLimb(a, i) == IF i >= 1 /\ i <= Len(a) THEN a[i] ELSE 0

\* the natural number n < 2^30 as limbs
BigOf(n) == BigNorm(<<n % Limb, n \div Limb>>)

\* -1, 0 or 1 as a < b, a = b, a > b
BigCmp(a, b) ==
    IF Len(a) # Len(b) THEN (IF Len(a) < Len(b) THEN -1 ELSE 1)
    ELSE LET diff == {i \in 1..Len(a) : a[i] # b[i]}
         IN  IF diff = {} THEN 0
             ELSE LET i == CHOOSE k \in diff : \A j \in diff : j <= k
                  IN  IF a[i] < b[i] THEN -1 ELSE 1

\* a + b
BigAdd(a, b) ==
    LET n == (IF Len(a) > Len(b) THEN Len(a) ELSE Len(b)) + 1
        RECURSIVE carry(_)
        \* the carry into limb i
        carry(i) ==
            IF i = 1 THEN 0
            ELSE (BigLimb(a, i - 1) + BigLimb(b, i - 1) + carry(i - 1))
                 \div Limb
    IN  BigNorm([i \in 1..n |->
                    (BigLimb(a, i) + BigLimb(b, i) + carry(i)) % Limb])

\* a - b for a >= b
BigSub(a, b) ==
    LET RECURSIVE borrow(_)
        \* the borrow out of limb i - 1
        borrow(i) ==
            IF i = 1 THEN 0
            ELSE IF BigLimb(a, i - 1) - BigLimb(b, i - 1) - borrow(i - 1) < 0
                 THEN 1 ELSE 0
    IN  BigNorm([i \in 1..Len(a) |->
                    (BigLimb(a, i) - BigLimb(b, i) - borrow(i)) % Limb])

\* a * k for 0 <= k < 2^15
BigTimes(a, k) ==
    LET RECURSIVE carry(_)
        carry(i) ==
            IF i = 1 THEN 0
            ELSE (BigLimb(a, i - 1) * k + carry(i - 1)) \div Limb
    IN  BigNorm([i \in 1..(Len(a) + 1) |->
                    (BigLimb(a, i) * k + carry(i)) % Limb])

\* a * 2^(15 * n)
BigShiftLimbs(a, n) ==
    IF a = <<>> THEN <<>> ELSE [i \in 1..n |-> 0] \o a

\* a times the limbs j.. of b, shifted to their places
RECURSIVE BigMulFrom(_, _, _)
BigMulFrom(a, b, j) ==
    IF j > Len(b) THEN <<>>
    ELSE BigAdd(BigShiftLimbs(BigTimes(a, b[j]), j - 1),
                BigMulFrom(a, b, j + 1))

\* a * b
BigMul(a, b) == BigMulFrom(a, b, 1)

\* a * 2^k
BigShl(a, k) == BigShiftLimbs(BigTimes(a, 2 ^ (k % 15)), k \div 15)

\* floor(a / 2^k)
BigShr(a, k) ==
    LET d == k \div 15
        r == k % 15
    IN  IF d >= Len(a) THEN <<>>
        ELSE BigNorm([i \in 1..(Len(a) - d) |->
                 (BigLimb(a, i + d) \div (2 ^ r))
                 + ((BigLimb(a, i + d + 1) % (2 ^ r)) * (2 ^ (15 - r)))])

\* bit i of a (bit 0 is the least significant)
BigBit(a, i) == (BigLimb(a, (i \div 15) + 1) \div (2 ^ (i % 15))) % 2

\* the number of bits of a
BigLen(a) ==
    IF a = <<>> THEN 0
    ELSE 15 * (Len(a) - 1)
         + Cardinality({i \in 0..14 : 2 ^ i <= a[Len(a)]})

\* a mod 2^k = 0
BigLowZero(a, k) == BigShl(BigShr(a, k), k) = a

\* one digit of the long division by dd, whose top limb is at least 2^14:
\* st = <<quotient, remainder>> so far and limb is the next limb of the
\* dividend.  The quotient of the two top limbs of the remainder by the
\* top limb of dd is the digit or exceeds it by at most 2.
BigDivStep(dd, st, limb) ==
    LET take(q, r, c) ==
            <<BigAdd(q, BigOf(c)), BigSub(r, BigTimes(dd, c))>>
        fix(q, r, q0) ==
            take(q, r,
                 IF BigCmp(BigTimes(dd, q0), r) <= 0 THEN q0
                 ELSE IF BigCmp(BigTimes(dd, q0 - 1), r) <= 0
                      THEN q0 - 1
                      ELSE q0 - 2)
        least(x) == IF x > Limb - 1 THEN Limb - 1 ELSE x
        pick(q, r) ==
            fix(q, r,
                least(((BigLimb(r, Len(dd) + 1) * Limb)
                       + BigLimb(r, Len(dd))) \div dd[Len(dd)]))
    IN  pick(BigShiftLimbs(st[1], 1),
             BigAdd(BigShiftLimbs(st[2], 1), BigOf(limb)))

\* the limbs hi down to lo of nn brought down
RECURSIVE BigDivRun(_, _, _, _, _)
BigDivRun(nn, dd, st, hi, lo) ==
    IF hi < lo THEN st
    ELSE IF hi = lo THEN BigDivStep(dd, st, nn[hi])
    ELSE LET mid == (hi + lo) \div 2
             a == BigDivRun(nn, dd, st, hi, mid + 1)
         IN  IF a = <<>> THEN a ELSE BigDivRun(nn, dd, a, mid, lo)

\* <<floor(n / d), n mod d>> for d # 0: long division in base 2^15 of
\* both numbers shifted so that the top limb of d is at least 2^14
BigDivMod(n, d) ==
    LET back(qr, s) == <<qr[1], BigShr(qr[2], s)>>
        normalized(nn, dd, s) ==
            back(BigDivRun(nn, dd, <<(<<>>), (<<>>)>>, Len(nn), 1), s)
        shifted(s) == normalized(BigShl(n, s), BigShl(d, s), s)
    IN  shifted((15 * Len(d)) - BigLen(d))

\* the largest r + k, k < 2^(i+1), whose square is at most t
RECURSIVE SmallRoot(_, _, _)
SmallRoot(t, r, i) ==
    IF i < 0 THEN r
    ELSE IF (r + (2 ^ i)) * (r + (2 ^ i)) <= t
         THEN SmallRoot(t, r + (2 ^ i), i - 1)
         ELSE SmallRoot(t, r, i - 1)

\* Newton's iteration for the root of n downwards: y is the step after x,
\* and the first step that does not go down has reached the root
RECURSIVE BigNewton(_, _, _)
BigNewton(n, x, y) ==
    IF BigCmp(y, x) >= 0 THEN x
    ELSE BigNewton(n, y, BigShr(BigAdd(y, BigDivMod(n, y)[1]), 1))

\* floor(sqrt(n)): Newton's iteration from an estimate of the leading 15
\* bits that is not below the root
BigSqrt(n) ==
    LET leading(lead) == BigLimb(lead, 1) + (BigLimb(lead, 2) * Limb)
        from(x) == BigNewton(n, BigAdd(x, <<1>>), x)
        start(sh) ==
            from(BigShl(BigOf(SmallRoot(leading(BigShr(n, sh)), 0, 14) + 1),
                        sh \div 2))
        even(L) == start(IF L <= 30 THEN 0 ELSE 2 * ((L - 29) \div 2))
    IN  IF n = <<>> THEN <<>> ELSE even(BigLen(n))

FZero == <<0, <<>>, 0>>

FNaN == <<2, <<>>, 0>>

\* x / 0 for x # 0
FInfinity(sign) == <<3 * sign, <<>>, 0>>

IsNaN(a) == a[1] = 2

\* sign * m * 2^e rounded to 53 significant bits, ties to even
Round(sign, m, e) ==
    LET renorm(q, x) ==
            IF BigLen(q) = 54 THEN <<sign, BigShr(q, 1), x + 1>>
            ELSE <<sign, q, x>>
        nearest(q, s) ==
            renorm(IF /\ BigBit(m, s - 1) = 1
                      /\ (BigBit(q, 0) = 1 \/ ~BigLowZero(m, s - 1))
                   THEN BigAdd(q, <<1>>) ELSE q,
                   e + s)
        at(L) ==
            IF L <= 53 THEN <<sign, BigShl(m, 53 - L), e - (53 - L)>>
            ELSE nearest(BigShr(m, L - 53), L - 53)
    IN  IF m = <<>> THEN FZero ELSE at(BigLen(m))

\* the integer n, |n| < 2^30, as a number
FOf(n) == Round(IF n < 0 THEN -1 ELSE 1, BigOf(IF n < 0 THEN -n ELSE n), 0)

\* -a
FNeg(a) == IF IsNaN(a) THEN a ELSE <<-a[1], a[2], a[3]>>

\* a + b
FAdd(a, b) ==
    LET low == IF a[3] < b[3] THEN a[3] ELSE b[3]
        aligned(ma, mb) ==
            Round(IF a[1] = b[1] \/ BigCmp(ma, mb) > 0 THEN a[1] ELSE b[1],
                  IF a[1] = b[1] THEN BigAdd(ma, mb)
                  ELSE IF BigCmp(ma, mb) >= 0 THEN BigSub(ma, mb)
                  ELSE BigSub(mb, ma),
                  low)
    IN  IF IsNaN(a) \/ IsNaN(b) THEN FNaN
        ELSE IF a = FZero THEN b
        ELSE IF b = FZero THEN a
        ELSE IF a[3] - b[3] > 64 THEN a
        ELSE IF b[3] - a[3] > 64 THEN b
        ELSE aligned(BigShl(a[2], a[3] - low), BigShl(b[2], b[3] - low))

\* a - b
FSub(a, b) == FAdd(a, FNeg(b))

\* a * b
FMul(a, b) ==
    IF IsNaN(a) \/ IsNaN(b) THEN FNaN
    ELSE IF a = FZero \/ b = FZero THEN FZero
    ELSE Round(a[1] * b[1], BigMul(a[2], b[2]), a[3] + b[3])

\* a / b
FDiv(a, b) ==
    LET sticky(qr) ==
            Round(a[1] * b[1],
                  IF qr[2] # <<>> /\ BigBit(qr[1], 0) = 0
                  THEN BigAdd(qr[1], <<1>>) ELSE qr[1],
                  a[3] - b[3] - 56)
    IN  IF IsNaN(a) \/ IsNaN(b) THEN FNaN
        ELSE IF b = FZero THEN (IF a = FZero THEN FNaN ELSE FInfinity(a[1]))
        ELSE IF a = FZero THEN FZero
        ELSE sticky(BigDivMod(BigShl(a[2], 56), b[2]))

\* Math.sqrt(a)
FSqrt(a) ==
    LET k == IF a[3] % 2 = 0 THEN 58 ELSE 57
        sticky(n, r) ==
            Round(1,
                  IF BigMul(r, r) # n /\ BigBit(r, 0) = 0
                  THEN BigAdd(r, <<1>>) ELSE r,
                  (a[3] - k) \div 2)
        rooted(n) == sticky(n, BigSqrt(n))
    IN  IF IsNaN(a) THEN FNaN
        ELSE IF a = FZero THEN FZero
        ELSE IF a[1] < 0 THEN FNaN
        ELSE rooted(BigShl(a[2], k))

\* a < b
FLess(a, b) ==
    LET below == \/ a[3] < b[3]
                 \/ a[3] = b[3] /\ BigCmp(a[2], b[2]) < 0
        above == \/ a[3] > b[3]
                 \/ a[3] = b[3] /\ BigCmp(a[2], b[2]) > 0
    IN  /\ ~IsNaN(a)
        /\ ~IsNaN(b)
        /\ IF a[1] # b[1] THEN a[1] < b[1]
           ELSE IF a[1] = 1 THEN below
           ELSE IF a[1] = -1 THEN above
           ELSE FALSE

----------------------------------------------------------------------------
(* Perceptual scheme: comparison of two tiles (decode.ts)                  *)

\* pattern[y]?.[x] ?? 0 with 0-based y and x; a tile is a sequence of rows
Cell(pattern, y, x) ==
    IF y + 1 <= Len(pattern) /\ x + 1 <= Len(pattern[y + 1])
    THEN pattern[y + 1][x + 1] ELSE FZero

\* the five running sums sum1, sum2, sum1Sq, sum2Sq, sumProd of compare
\* after the loop body for cells i..j, counted row by row
RECURSIVE compareSums(_, _, _, _, _, _)
compareSums(p1, p2, size, acc, i, j) ==
    LET body(v1, v2) ==
            <<FAdd(acc[1], v1), FAdd(acc[2], v2),
              FAdd(acc[3], FMul(v1, v1)), FAdd(acc[4], FMul(v2, v2)),
              FAdd(acc[5], FMul(v1, v2))>>
    IN  IF i > j THEN acc
        ELSE IF i = j
             THEN body(Cell(p1, i \div size, i % size),
                       Cell(p2, i \div size, i % size))
             ELSE LET mid == (i + j) \div 2
                      a == compareSums(p1, p2, size, acc, i, mid)
                  IN  IF a = <<>> THEN a
                      ELSE compareSums(p1, p2, size, a, mid + 1, j)

\* compare(pattern1, pattern2)
compare(p1, p2) ==
    LET size == IF Len(p1) < Len(p2) THEN Len(p1) ELSE Len(p2)
        ratio(numerator, denom1, denom2) ==
            IF denom1 = FZero \/ denom2 = FZero THEN FZero
            ELSE FDiv(numerator, FMul(denom1, denom2))
        centred(sums, count, mean1, mean2) ==
            ratio(FSub(sums[5], FMul(FMul(count, mean1), mean2)),
                   FSqrt(FSub(sums[3], FMul(FMul(count, mean1), mean1))),
                   FSqrt(FSub(sums[4], FMul(FMul(count, mean2), mean2))))
        means(sums, count) ==
            centred(sums, count, FDiv(sums[1], count), FDiv(sums[2], count))
    IN  means(compareSums(p1, p2, size,
                          <<FZero, FZero, FZero, FZero, FZero>>,
                          0, (size * size) - 1),
              FOf(size * size))

\* a tile of whole numbers
TileOf(rows) ==
    [y \in 1..Len(rows) |-> [x \in 1..Len(rows[y]) |-> FOf(rows[y][x])]]

\* (r + g + b) / 3 for a pixel whose channels add up to 5 (extractTile)
FiveThirds == FDiv(FOf(5), FOf(3))

\* the tiles handed to compare: no rows; one bright corner; a flat 3 x 3
\* tile of thirds; two 3 x 3 tiles; a tile with a short row
CompareTiles ==
    { <<>>,
      TileOf(<<(<<0, 0>>), (<<0, 1>>)>>),
      [y \in 1..3 |-> [x \in 1..3 |-> FiveThirds]],
      TileOf(<<(<<0, 2, 1>>), (<<6, 0, 8>>), (<<3, 0, 8>>)>>),
      TileOf(<<(<<1, 5, 7>>), (<<4, 7, 3>>), (<<2, 7, 8>>)>>),
      TileOf(<<(<<1>>), (<<2, 3>>)>>) }

\* only the comparison is in use
OnlyCompare ==
    /\ fields = None /\ Idle
    /\ tag = None /\ SynthIdle
    /\ shot = None /\ registry = <<>>
    /\ MatchIdle
    /\ NoReact

InitCompare ==
    /\ pattern1 \in CompareTiles
    /\ pattern2 \in CompareTiles
    /\ OnlyCompare

\* compare(pattern1, pattern2)
CompareForward ==
    /\ score12 = None
    /\ score12' = compare(pattern1, pattern2)
    /\ UNCHANGED <<pattern1, pattern2, score21, shot, registry, threshold,
                   sample, matches, reports>>
    /\ UNCHANGED <<exact, synth, react, overlay>>

\* compare(pattern2, pattern1)
CompareBackward ==
    /\ score21 = None
    /\ score21' = compare(pattern2, pattern1)
    /\ UNCHANGED <<pattern1, pattern2, score12, shot, registry, threshold,
                   sample, matches, reports>>
    /\ UNCHANGED <<exact, synth, react, overlay>>

NextCompare == CompareForward \/ CompareBackward

SpecCompare == InitCompare /\ [][NextCompare]_vars

----------------------------------------------------------------------------
(* Perceptual scheme: properties of the comparison                         *)

\* the number of rows and columns compared
ComparedSize == IF Len(pattern1) < Len(pattern2) THEN Len(pattern1)
                ELSE Len(pattern2)

\* every compared cell of the tile holds the same value
ZeroVariance(pattern) ==
    \A y, x \in 0..(ComparedSize - 1) : Cell(pattern, y, x) = Cell(pattern, 0, 0)

\* -1 <= a <= 1
InUnitRange(a) ==
    /\ ~IsNaN(a)
    /\ ~FLess(a, FOf(-1))
    /\ ~FLess(FOf(1), a)

\* C15: for any two tiles of any sizes compare returns a number in [-1, 1],
\* and exactly 0 (never NaN) whenever either tile has zero variance over
\* the compared region.
C15_PearsonRange ==
    score12 # None =>
        /\ InUnitRange(score12)
        /\ (ZeroVariance(pattern1) \/ ZeroVariance(pattern2)) => score12 = FZero

\* each row of the tile is as long as the tile is high
IsSquare(pattern) == \A y \in 1..Len(pattern) : Len(pattern[y]) = Len(pattern)

\* C16: compare(T, T) is 1 for every tile T with nonzero variance, and
\* compare(A, B) equals compare(B, A) for all square tiles A and B.
C16_SelfMatchSymmetric ==
    /\ (score12 # None /\ pattern1 = pattern2 /\ ~ZeroVariance(pattern1))
           => score12 = FOf(1)
    /\ (score12 # None /\ score21 # None
            /\ IsSquare(pattern1) /\ IsSquare(pattern2))
           => score12 = score21

----------------------------------------------------------------------------
(* Perceptual scheme: scanning a screenshot (decode.ts)                    *)

\* const step = 32
Step == 32

\* the tileSize handed to scan
TileSize == 2

\* the values a loop `for (v = 0; v < limit; v += step)` takes
SampleStarts(limit) ==
    [i \in 1..(IF limit <= 0 THEN 0 ELSE ((limit - 1) \div Step) + 1) |->
        (i - 1) * Step]

\* the <<x, y>> at which scan's nested loops extract a tile, in loop order
Samples(w, h, tileSize) ==
    LET xs == SampleStarts(w - tileSize)
        ys == SampleStarts(h - tileSize)
    IN  [k \in 1..(Len(xs) * Len(ys)) |->
            <<xs[((k - 1) % Len(xs)) + 1], ys[((k - 1) \div Len(xs)) + 1]>>]

\* png.data[i] of a screenshot.  A screenshot is kept as its width, its
\* height and the blocks of pixels at the multiples of Step (block k, row
\* by row, is a tile of <<r, g, b>>); all other pixels are white and
\* alpha is 255.
Sampled(image, i) ==
    LET px == (i \div 4) % image.width
        py == (i \div 4) \div image.width
        k == ((py \div Step) * Len(SampleStarts(image.width))) + (px \div Step) + 1
        oy == (py % Step) + 1
        ox == (px % Step) + 1
    IN  IF i % 4 = 3 THEN 255
        ELSE IF k <= Len(image.blocks) /\ oy <= Len(image.blocks[k])
                /\ ox <= Len(image.blocks[k][oy])
        THEN image.blocks[k][oy][ox][(i % 4) + 1]
        ELSE 255

\* extractTile(data, width, startX, startY, tileSize)
extractTile(image, startX, startY, tileSize) ==
    LET gray(idx) ==
            FDiv(FOf(Sampled(image, idx) + Sampled(image, idx + 1)
                     + Sampled(image, idx + 2)),
                 FOf(3))
    IN  [y \in 1..tileSize |-> [x \in 1..tileSize |->
            IF startX + (x - 1) < image.width /\ startY + (y - 1) < image.width
            THEN gray((((startY + (y - 1)) * image.width) + startX + (x - 1)) * 4)
            ELSE FZero]]

\* Math.max(a, b)
FMax(a, b) ==
    IF IsNaN(a) \/ IsNaN(b) THEN FNaN ELSE IF FLess(a, b) THEN b ELSE a

\* existing.count++ without the update of existing.score
BumpCount(existing, score) == [existing EXCEPT !.count = @ + 1]

\* existing.count++; existing.score = Math.max(existing.score, score)
Bump(existing, score) ==
    [existing EXCEPT !.count = @ + 1, !.score = FMax(@, score)]

\* score < threshold
Below(score, limit) == FLess(score, limit)

\* score > threshold
Exceeds(score, limit) == FLess(limit, score)

\* the comparator of the final sort is negative: a goes before b; here by
\* score first
GoesBeforeByScore(a, b) ==
    \/ FLess(b.score, a.score)
    \/ a.score = b.score /\ a.count > b.count

\* the comparator of the final sort is negative: a goes before b
GoesBefore(a, b) ==
    \/ a.count > b.count
    \/ a.count = b.count /\ FLess(b.score, a.score)

\* Array.prototype.sort with scan's comparator (the sort is stable)
SortMatches(found) ==
    LET insert(sorted, m) ==
            LET pos == Cardinality({i \in 1..Len(sorted) :
                                        ~GoesBefore(m, sorted[i])})
            IN  SubSeq(sorted, 1, pos) \o <<m>>
                \o SubSeq(sorted, pos + 1, Len(sorted))
        RECURSIVE run(_, _)
        run(sorted, i) ==
            IF i > Len(found) THEN sorted
            ELSE run(insert(sorted, found[i]), i + 1)
    IN  run(<<>>, 1)

\* the body of `for (const entry of registry)`: st holds the scores in
\* the order they are computed and the Map in insertion order
scanRecord(st, entry, score, limit) ==
    [scores |-> Append(st.scores, score),
     matches |->
        IF ~Exceeds(score, limit) THEN st.matches
        ELSE IF \E i \in 1..Len(st.matches) :
                    st.matches[i].path = entry.path
        THEN [i \in 1..Len(st.matches) |->
                IF st.matches[i].path = entry.path
                THEN Bump(st.matches[i], score)
                ELSE st.matches[i]]
        ELSE Append(st.matches,
                    [path |-> entry.path, type |-> entry.type,
                     score |-> score, count |-> 1])]

\* `for (const entry of registry)` from entry e on
RECURSIVE scanEntries(_, _, _, _, _)
scanEntries(entries, limit, st, tile, e) ==
    IF e > Len(entries) THEN st
    ELSE scanEntries(entries, limit,
                     scanRecord(st, entries[e],
                                compare(tile, entries[e].pattern), limit),
                     tile, e + 1)

\* the two loops over the sampled positions at[k..]
RECURSIVE scanTiles(_, _, _, _, _, _, _)
scanTiles(image, entries, tileSize, limit, at, st, k) ==
    IF k > Len(at) THEN st
    ELSE scanTiles(image, entries, tileSize, limit, at,
                   scanEntries(entries, limit, st,
                               extractTile(image, at[k][1], at[k][2],
                                           tileSize), 1),
                   k + 1)

\* scan(pngData, registry, tileSize, threshold): the scores in the order
\* they are computed, the Map at the end of the loops in insertion order,
\* and the returned list
scan(image, entries, tileSize, limit) ==
    LET return(st) ==
            [scores |-> st.scores, matches |-> st.matches,
             found |-> SortMatches(st.matches)]
    IN  return(scanTiles(image, entries, tileSize, limit,
                         Samples(image.width, image.height, tileSize),
                         [scores |-> <<>>, matches |-> <<>>], 1))

\* a pixel of gray g
Gray(g) == <<g, g, g>>

\* a block of whole grays
BlockOf(rows) ==
    [y \in 1..Len(rows) |-> [x \in 1..Len(rows[y]) |-> Gray(rows[y][x])]]

\* the blocks that screenshots are made of
Ramp == BlockOf(<<(<<1, 2>>), (<<3, 4>>)>>)
Corner == BlockOf(<<(<<0, 0>>), (<<0, 1>>)>>)
Faint == BlockOf(<<(<<0, 1>>), (<<2, 0>>)>>)
Dot == BlockOf(<<(<<0, 0>>), (<<1, 0>>)>>)
Flat == BlockOf(<<(<<5, 5>>), (<<5, 5>>)>>)
Weak == BlockOf(<<(<<1, 4>>), (<<3, 0>>)>>)
Stripe == <<(<<Gray(0), <<1, 2, 3>> >>), (<<Gray(0), <<0, 1, 2>> >>)>>

\* the screenshots: one block; three blocks side by side (three times);
\* two blocks one above the other in a narrow image
Shots ==
    { [width |-> 3, height |-> 3, blocks |-> <<Flat>>],
      [width |-> 67, height |-> 3, blocks |-> <<Faint, Dot, Weak>>],
      [width |-> 67, height |-> 3, blocks |-> <<Dot, Corner, Stripe>>],
      [width |-> 67, height |-> 3, blocks |-> <<Dot, Dot, Stripe>>],
      [width |-> 3, height |-> 35, blocks |-> <<Ramp, Ramp>>] }

PageEntry ==
    [path |-> "Page", type |-> "page", depth |-> 1,
     pattern |-> TileOf(<<(<<1, 2>>), (<<3, 4>>)>>)]

ButtonEntry ==
    [path |-> "Page/Btn", type |-> "button", depth |-> 2,
     pattern |-> TileOf(<<(<<2, 4>>), (<<1, 3>>)>>)]

\* a second entry with the path of PageEntry
PanelEntry ==
    [path |-> "Page", type |-> "panel", depth |-> 2,
     pattern |-> TileOf(<<(<<0, 0>>), (<<0, 1>>)>>)]

Registries ==
    { <<>>, <<PageEntry>>, <<PageEntry, ButtonEntry>>,
      <<ButtonEntry, PageEntry>>, <<PageEntry, PanelEntry>> }

\* the thresholds handed to scan: 0 and the command line's 0.15
Thresholds == {FZero, FDiv(FOf(15), FOf(100))}

\* only the scan is in use
OnlyScan ==
    /\ fields = None /\ Idle
    /\ tag = None /\ SynthIdle
    /\ pattern1 = <<>> /\ pattern2 = <<>>
    /\ MatchIdle
    /\ NoReact

InitScan ==
    /\ shot \in Shots
    /\ registry \in Registries
    /\ OnlyScan

\* one call scan(pngData, registry, TileSize, t)
Scan(t) ==
    /\ shot # None
    /\ \A i \in 1..Len(reports) : reports[i].threshold # t
    /\ LET returned(r) ==
               /\ matches' = r.matches
               /\ reports' = Append(reports,
                                    [threshold |-> t, scores |-> r.scores,
                                     found |-> r.found])
       IN  returned(scan(shot, registry, TileSize, t))
    /\ threshold' = t
    /\ sample' = Len(Samples(shot.width, shot.height, TileSize))
    /\ UNCHANGED <<pattern1, pattern2, score12, score21, shot, registry>>
    /\ UNCHANGED <<exact, synth, react, overlay>>

NextScan == \E t \in Thresholds : Scan(t)

SpecScan == InitScan /\ [][NextScan]_vars

----------------------------------------------------------------------------
(* Perceptual scheme: properties of the scan                               *)

\* the number of tiles the scan samples from the screenshot
NumSamples == Len(Samples(shot.width, shot.height, TileSize))

\* the score of sampled tile s against registry entry e in report r
ScoreAt(r, s, e) == r.scores[((s - 1) * Len(registry)) + e]

\* the <<tile, entry>> pairs of report r whose entry carries path p and
\* whose score strictly exceeds the threshold
Qualifying(r, p) ==
    {q \in (1..NumSamples) \X (1..Len(registry)) :
        /\ registry[q[2]].path = p
        /\ FLess(r.threshold, ScoreAt(r, q[1], q[2]))}

\* report r lists path p exactly when a pair qualifies, once, with count
\* n and with the largest qualifying score
ReportedAs(r, p, n) ==
    LET Q == Qualifying(r, p)
        hits == {i \in 1..Len(r.found) : r.found[i].path = p}
    IN  IF Q = {} THEN hits = {}
        ELSE /\ Cardinality(hits) = 1
             /\ \A i \in hits :
                    /\ r.found[i].count = n
                    /\ \E q \in Q : r.found[i].score = ScoreAt(r, q[1], q[2])
                    /\ \A q \in Q :
                           ~FLess(r.found[i].score, ScoreAt(r, q[1], q[2]))

\* every tile is scored against every entry and only registry paths are
\* reported
ScoresEverything(r) ==
    /\ Len(r.scores) = NumSamples * Len(registry)
    /\ \A i \in 1..Len(r.found) :
           \E e \in 1..Len(registry) : registry[e].path = r.found[i].path

\* C17 as stated: for each registry path the reported count is the number
\* of sampled tiles whose score strictly exceeds the threshold, the
\* reported score is the maximum of those scores, and a path without a
\* qualifying tile is not reported.
C17_CountsQualifyingTiles ==
    shot # None =>
        \A k \in 1..Len(reports) :
            /\ ScoresEverything(reports[k])
            /\ \A e \in 1..Len(registry) :
                   ReportedAs(reports[k], registry[e].path,
                       Cardinality({q[1] : q \in Qualifying(reports[k],
                                                          registry[e].path)}))

\* C17 (amended): for each registry path the reported count is the number
\* of pairs of a sampled tile and a registry entry with that path whose
\* score strictly exceeds the threshold (the number of tiles when no two
\* entries share a path), the reported score is the maximum of those
\* scores, and a path without a qualifying pair is not reported.
C17_CountsQualifyingPairs ==
    shot # None =>
        \A k \in 1..Len(reports) :
            /\ ScoresEverything(reports[k])
            /\ \A e \in 1..Len(registry) :
                   ReportedAs(reports[k], registry[e].path,
                       Cardinality(Qualifying(reports[k], registry[e].path)))

\* a tile exceeds the threshold for two entries with different paths, both
\* paths are reported, and another tile does not qualify for one of them
C17_Witness ==
    /\ shot # None
    /\ \E k \in 1..Len(reports) :
           /\ Len(reports[k].found) = 2
           /\ \E s \in 1..NumSamples :
                  \A e \in 1..2 :
                      FLess(reports[k].threshold, ScoreAt(reports[k], s, e))
           /\ \E s \in 1..NumSamples : \E e \in 1..2 :
                  ~FLess(reports[k].threshold, ScoreAt(reports[k], s, e))
           /\ registry[1].path # registry[2].path

C19_ThresholdMonotone ==
    \A i, j \in 1..Len(reports) :
        ~FLess(reports[j].threshold, reports[i].threshold) =>
            /\ Len(reports[j].found) <= Len(reports[i].found)
            /\ \A m \in 1..Len(reports[j].found) :
                   \E n \in 1..Len(reports[i].found) :
                       /\ reports[i].found[n].path = reports[j].found[m].path
                       /\ reports[j].found[m].count <= reports[i].found[n].count

\* two scans of the same screenshot where the higher threshold drops a
\* path and lowers the count of another
C19_Witness ==
    \E i, j \in 1..Len(reports) :
        /\ FLess(reports[i].threshold, reports[j].threshold)
        /\ Len(reports[j].found) < Len(reports[i].found)
        /\ \E m \in 1..Len(reports[j].found) :
               \E n \in 1..Len(reports[i].found) :
                   /\ reports[i].found[n].path = reports[j].found[m].path
                   /\ reports[j].found[m].count < reports[i].found[n].count

----------------------------------------------------------------------------
(* Perceptual scheme: the sampling grid of the sweep                       *)

\* the tile origins the finished scan visited
Origins == Samples(shot.width, shot.height, TileSize)

\* a scan of the screenshot has returned
Scanned == shot # None /\ reports # <<>>

\* pixel <<px, py>> lies inside the tile window at origin o
InWindow(o, px, py) ==
    /\ o[1] <= px /\ px < o[1] + TileSize
    /\ o[2] <= py /\ py < o[2] + TileSize

\* C25: for an image at least tileSize wide and high, scan samples at
\* least one tile, every pixel of the image lies inside some sampled tile
\* window, and every sampled window lies inside the image.
C25_SweepCoversImage ==
    (Scanned /\ shot.width >= TileSize /\ shot.height >= TileSize) =>
        /\ sample >= 1
        /\ sample = Len(Origins)
        /\ \A px \in 0..(shot.width - 1), py \in 0..(shot.height - 1) :
               \E k \in 1..Len(Origins) : InWindow(Origins[k], px, py)
        /\ \A k \in 1..Len(Origins) :
               /\ Origins[k][1] + TileSize <= shot.width
               /\ Origins[k][2] + TileSize <= shot.height

\* the step of decode-noise.ts's scanImage for a tile size
scanImageStep(tileSize) == tileSize * 2

\* C26: the grid step is below the tile size, in scan and in scanImage, so
\* that two sampled tiles that follow each other in a row or in a column
\* of the grid share a pixel column or row.
C26_AdjacentSamplesOverlap ==
    Scanned =>
        /\ Step < TileSize
        /\ scanImageStep(TileSize) < TileSize
        /\ \A j, k \in 1..Len(Origins) :
               (/\ Origins[j][2] = Origins[k][2]
                /\ Origins[j][1] < Origins[k][1]
                /\ \A m \in 1..Len(Origins) :
                       ~(/\ Origins[m][2] = Origins[j][2]
                         /\ Origins[j][1] < Origins[m][1]
                         /\ Origins[m][1] < Origins[k][1]))
               => Origins[k][1] < Origins[j][1] + TileSize
        /\ \A j, k \in 1..Len(Origins) :
               (/\ Origins[j][1] = Origins[k][1]
                /\ Origins[j][2] < Origins[k][2]
                /\ \A m \in 1..Len(Origins) :
                       ~(/\ Origins[m][1] = Origins[j][1]
                         /\ Origins[j][2] < Origins[m][2]
                         /\ Origins[m][2] < Origins[k][2]))
               => Origins[k][2] < Origins[j][2] + TileSize

\* (r + g + b) / 3 of image pixel <<px, py>>
PixelMean(image, px, py) ==
    FDiv(FOf(Sampled(image, ((py * image.width) + px) * 4)
             + Sampled(image, (((py * image.width) + px) * 4) + 1)
             + Sampled(image, (((py * image.width) + px) * 4) + 2)),
         FOf(3))

\* C27: for every tile origin the scan visits, the value of the extracted
\* tile at (x, y) is the mean of the R, G and B bytes of image pixel
\* (startX + x, startY + y), also when the image is higher than wide.
C27_TileExtractionFaithful ==
    Scanned =>
        \A k \in 1..Len(Origins) :
            \A x \in 0..(TileSize - 1), y \in 0..(TileSize - 1) :
                extractTile(shot, Origins[k][1], Origins[k][2],
                            TileSize)[y + 1][x + 1]
                    = PixelMean(shot, Origins[k][1] + x, Origins[k][2] + y)

----------------------------------------------------------------------------
(* The React wrappers: DevTag, DevTagNoise, DevTagStrip, DevTagShadow,     *)
(* ComponentMapper, and the createElement patch of auto-inject.ts          *)

\* values of process.env.NODE_ENV
Envs == {"development", "production", "test"}

\* an alternative reading of the mode test: everything but production
IsNotProduction(env) == env # "production"

\* process.env.NODE_ENV === 'development'
isDev(env) == env = "development"

\* the default value of ComponentCtx and of NoiseCtx
DefaultCtx == [path |-> <<>>, depth |-> 0]

\* a context value that forgets to count the component
ProvideFlat(parent, id) ==
    [path |-> Append(parent.path, id), depth |-> parent.depth]

\* the Provider's value: { path: currentPath, depth: parent.depth + 1 }
Provide(parent, id) ==
    [path |-> Append(parent.path, id), depth |-> parent.depth + 1]

\* DevTag (and DevTagNoise, which has the same body over NoiseCtx): what the
\* component renders, what its effect hashes and sets, and the context its
\* children see
DevTag(props, parent, env) ==
    LET currentPath == Append(parent.path, props.id)
        pathString == Join(currentPath)
        marked == isDev(env) /\ ~props.disabled
    IN  [hashed |-> IF marked
                    THEN Stringify(pathString, props.type, parent.depth + 1)
                    ELSE None,
         background |-> marked,
         output |-> IF marked THEN "container" ELSE "children",
         ctx |-> IF marked THEN Provide(parent, props.id) ELSE parent]

\* DevTagStrip, DevTagShadow and ComponentMapper: null outside development,
\* a canvas in development
Leaf(parent, env) ==
    [hashed |-> None, background |-> FALSE,
     output |-> IF isDev(env) THEN "canvas" ELSE "null",
     ctx |-> parent]

Nesting == {"DevTag", "DevTagNoise"}
Leaves == {"DevTagStrip", "DevTagShadow", "ComponentMapper"}

\* id and type of the DevTags: "Page" of type "button", and an id that
\* contains the separator, "a/b", of type "page"
MarkerTags ==
    {[id |-> <<80, 97, 103, 101>>, type |-> <<98, 117, 116, 116, 111, 110>>],
     [id |-> <<97, 47, 98>>, type |-> <<112, 97, 103, 101>>]}

\* props of the mountable components
MarkerProps ==
    {[kind |-> "DevTag", id |-> t.id, type |-> t.type, disabled |-> off] :
        t \in MarkerTags, off \in BOOLEAN}
    \cup [kind : {"DevTagNoise"}, id : {<<80, 97, 103, 101>>},
          type : {<<112, 97, 103, 101>>}, disabled : BOOLEAN]
    \cup [kind : Leaves, id : {<<>>}, type : {<<>>}, disabled : {FALSE}]

\* deepest nesting of mounted markers
MaxNesting == 2

RECURSIVE RenderFrom(_, _, _, _, _, _)
\* React's render pass over the chain: each component reads the context of
\* its own kind as its nearest provider left it
RenderFrom(chain, env, i, compCtx, noiseCtx, acc) ==
    IF i > Len(chain) THEN acc
    ELSE LET props == chain[i]
             out == IF props.kind = "DevTag" THEN DevTag(props, compCtx, env)
                    ELSE IF props.kind = "DevTagNoise"
                         THEN DevTag(props, noiseCtx, env)
                    ELSE Leaf(DefaultCtx, env)
         IN  RenderFrom(chain, env, i + 1,
                        IF props.kind = "DevTag" THEN out.ctx ELSE compCtx,
                        IF props.kind = "DevTagNoise" THEN out.ctx
                        ELSE noiseCtx,
                        Append(acc, out))

Render(chain, env) == RenderFrom(chain, env, 1, DefaultCtx, DefaultCtx, <<>>)

InjectUntouched ==
    UNCHANGED <<nodeEnv, createElement, isPatched, componentRegistry,
                pathStack, enableCalled, calls>>

\* a marker is mounted inside the innermost mounted one
Mount ==
    /\ Len(tree) < MaxNesting
    /\ IF tree = <<>> THEN TRUE ELSE tree[Len(tree)].kind \in Nesting
    /\ \E props \in MarkerProps :
           /\ tree' = Append(tree, props)
           /\ rendered' = Render(tree', nodeEnv)
    /\ InjectUntouched
    /\ UNCHANGED <<exact, synth, match, overlay>>

\* a mounted marker gets new props; it and everything below it render again
SetProps ==
    /\ \E i \in 1..Len(tree) :
           \E props \in MarkerProps :
               /\ props.kind = tree[i].kind
               /\ props # tree[i]
               /\ tree' = [tree EXCEPT ![i] = props]
               /\ rendered' = Render(tree', nodeEnv)
    /\ InjectUntouched
    /\ UNCHANGED <<exact, synth, match, overlay>>

\* the innermost marker is unmounted
Unmount ==
    /\ tree # <<>>
    /\ tree' = SubSeq(tree, 1, Len(tree) - 1)
    /\ rendered' = Render(tree', nodeEnv)
    /\ InjectUntouched
    /\ UNCHANGED <<exact, synth, match, overlay>>

----------------------------------------------------------------------------
(* auto-inject.ts: enableAutoDevTag and the patched React.createElement    *)

\* String.prototype.toLowerCase, on ASCII
toLowerCase(str) ==
    [i \in 1..Len(str) |->
        IF str[i] \in 65..90 THEN str[i] + 32 ELSE str[i]]

\* String.prototype.includes
includes(str, sub) ==
    \E i \in 1..(Len(str) - Len(sub) + 1) :
        SubSeq(str, i, i + Len(sub) - 1) = sub

\* inferType(name, component) of auto-inject.ts; the result as a word
inferType(name) ==
    LET lowerName == toLowerCase(name)
        has(word) == includes(lowerName, word)
    IN  IF has(<<98, 117, 116, 116, 111, 110>>) \/ has(<<98, 116, 110>>)
            THEN "button"
        ELSE IF has(<<109, 111, 100, 97, 108>>)
                \/ has(<<100, 105, 97, 108, 111, 103>>) THEN "modal"
        ELSE IF has(<<112, 97, 110, 101, 108>>) \/ has(<<99, 97, 114, 100>>)
            THEN "panel"
        ELSE IF has(<<112, 97, 103, 101>>) \/ has(<<118, 105, 101, 119>>)
            THEN "page"
        ELSE IF has(<<104, 101, 97, 100, 101, 114>>) \/ has(<<110, 97, 118>>)
            THEN "nav"
        ELSE IF has(<<102, 111, 111, 116, 101, 114>>) THEN "footer"
        ELSE IF has(<<115, 105, 100, 101, 98, 97, 114>>) THEN "sidebar"
        ELSE IF has(<<102, 111, 114, 109>>) THEN "form"
        ELSE IF has(<<105, 110, 112, 117, 116>>)
                \/ has(<<102, 105, 101, 108, 100>>) THEN "input"
        ELSE IF has(<<108, 105, 115, 116>>) \/ has(<<103, 114, 105, 100>>)
            THEN "list"
        ELSE "component"

\* 'Anonymous'
Anonymous == <<65, 110, 111, 110, 121, 109, 111, 117, 115>>

\* the `type` arguments: the host element 'div', function SaveBtn, a memo
\* object with displayName "Page", and an arrow function without a name
ElementTypes ==
    {[isComponent |-> FALSE, displayName |-> <<>>, name |-> <<>>],
     [isComponent |-> TRUE, displayName |-> <<>>,
      name |-> <<83, 97, 118, 101, 66, 116, 110>>],
     [isComponent |-> TRUE, displayName |-> <<80, 97, 103, 101>>,
      name |-> <<>>],
     [isComponent |-> TRUE, displayName |-> <<>>, name |-> <<>>]}

\* where a call of the patched function throws: nowhere; reading the name
\* (line 37); spreading props (line 57); the first originalCreateElement
\* (line 65); require (line 71); the wrapping originalCreateElement (line 73)
ThrowPoints == {"none", "name", "props", "create", "require", "wrap"}

\* Array.prototype.pop: nothing happens on an empty array
pop(stack) ==
    IF stack = <<>> THEN stack ELSE SubSeq(stack, 1, Len(stack) - 1)

\* the patched React.createElement(type, props, ...children): the module
\* state it leaves behind
patchedCreateElement(type, throwsAt, stack, reg) ==
    IF ~type.isComponent \/ throwsAt = "name"
    THEN [pathStack |-> stack, componentRegistry |-> reg]
    ELSE LET componentName ==
                 IF type.displayName # <<>> THEN type.displayName
                 ELSE IF type.name # <<>> THEN type.name
                 ELSE Anonymous
             componentType == inferType(componentName)
             currentPath == Append(stack, componentName)
             pathString == Join(currentPath)
             added ==
                 IF \E k \in 1..Len(reg) : reg[k].path = pathString
                 THEN reg
                 ELSE Append(reg, [path |-> pathString,
                                   type |-> componentType,
                                   depth |-> Len(currentPath)])
             pushed == Append(stack, componentName)
         IN  [componentRegistry |-> added,
              pathStack |->
                  IF throwsAt = "props" THEN pushed
                  ELSE IF throwsAt = "create" THEN pop(pushed)
                  ELSE IF throwsAt \in {"require", "wrap"}
                       THEN pop(pop(pushed))
                  ELSE pop(pushed)]

\* number of createElement calls followed
MaxCalls == 2

MarkersUntouched == UNCHANGED <<nodeEnv, tree, rendered>>

\* enableAutoDevTag(intensity)
EnableAutoDevTag ==
    /\ enableCalled' = TRUE
    /\ IF isPatched \/ ~isDev(nodeEnv)
       THEN UNCHANGED <<createElement, isPatched>>
       ELSE createElement' = "patched" /\ isPatched' = TRUE
    /\ UNCHANGED <<componentRegistry, pathStack, calls>>
    /\ MarkersUntouched
    /\ UNCHANGED <<exact, synth, match, overlay>>

\* React.createElement(type, props, ...children), patched or not
CreateElement ==
    /\ calls < MaxCalls
    /\ calls' = calls + 1
    /\ \E type \in ElementTypes, throwsAt \in ThrowPoints :
           IF createElement = "patched"
           THEN LET after == patchedCreateElement(type, throwsAt, pathStack,
                                                  componentRegistry)
                IN  /\ pathStack' = after.pathStack
                    /\ componentRegistry' = after.componentRegistry
           ELSE UNCHANGED <<pathStack, componentRegistry>>
    /\ UNCHANGED <<createElement, isPatched, enableCalled>>
    /\ MarkersUntouched
    /\ UNCHANGED <<exact, synth, match, overlay>>

\* nothing of the pixel schemes is in use
OnlyReact ==
    /\ fields = None /\ Idle
    /\ tag = None /\ SynthIdle
    /\ pattern1 = <<>> /\ pattern2 = <<>> /\ shot = None /\ registry = <<>>
    /\ score12 = None /\ score21 = None
    /\ threshold = None /\ sample = 0 /\ matches = <<>> /\ reports = <<>>

InitReact == nodeEnv \in Envs /\ ReactIdle /\ OverlayIdle /\ OnlyReact

NextReact == Mount \/ SetProps \/ Unmount \/ EnableAutoDevTag \/ CreateElement

SpecReact == InitReact /\ [][NextReact]_vars

----------------------------------------------------------------------------
(* Properties of the React wrappers                                        *)

\* the decoder's build: JSON.stringify({ p: comp.path, t: comp.type,
\* d: comp.depth })
buildData(comp) == Stringify(comp.path, comp.type, comp.depth)

\* the ids of the DevTag components from the root down to position i
RECURSIVE IdsTo(_)
IdsTo(i) ==
    IF i = 0 THEN <<>>
    ELSE IF tree[i].kind = "DevTag" THEN Append(IdsTo(i - 1), tree[i].id)
    ELSE IdsTo(i - 1)

\* no DevTag from the root down to position i is disabled
NoneDisabled(i) ==
    \A k \in 1..i : tree[k].kind = "DevTag" => ~tree[k].disabled

\* the number of '/'-separated segments of a path string
Segments(path) == 1 + Cardinality({k \in 1..Len(path) : path[k] = 47})

\* the key that position i hashes, when its depth is taken to be d
HashesKey(i, d) ==
    rendered[i].hashed =
        buildData([path |-> Join(IdsTo(i)), type |-> tree[i].type,
                   depth |-> d])

\* C22: in development, a DevTag whose DevTag ancestors and itself are all
\* enabled hashes JSON.stringify({p, t, d}) where p is the ancestors' ids,
\* root first, then its own id, joined by '/', t is its type and d is the
\* number of ids joined (the component and its DevTag ancestors); this is
\* the string build derives for the entry {path: p, type: t, depth: d}.
C22_KeyFromNesting ==
    isDev(nodeEnv) =>
        \A i \in 1..Len(tree) :
            (tree[i].kind = "DevTag" /\ NoneDisabled(i)) =>
                HashesKey(i, Len(IdsTo(i)))

\* C22 as stated: the same with d the number of segments of p
C22_KeyFromSegments ==
    isDev(nodeEnv) =>
        \A i \in 1..Len(tree) :
            (tree[i].kind = "DevTag" /\ NoneDisabled(i)) =>
                HashesKey(i, Segments(Join(IdsTo(i))))

\* "Page" inside "a/b", both enabled: the inner one hashes
\* {"p":"a/b/Page","t":"button","d":2}
C22_Witness ==
    /\ isDev(nodeEnv)
    /\ Len(tree) = 2
    /\ \A k \in 1..2 : tree[k].kind = "DevTag" /\ ~tree[k].disabled
    /\ tree[1].id = <<97, 47, 98>>
    /\ tree[2].id = <<80, 97, 103, 101>>
    /\ rendered[2].hashed =
           Stringify(<<97, 47, 98, 47, 80, 97, 103, 101>>,
                     <<98, 117, 116, 116, 111, 110>>, 2)

RegistryUnique ==
    \A a, b \in 1..Len(componentRegistry) :
        componentRegistry[a].path = componentRegistry[b].path => a = b

\* a call of React.createElement leaves pathStack as it found it
StackRestored == calls' # calls => pathStack' = pathStack

\* C30: after every call of React.createElement, patched or not, whether the
\* wrapping succeeds or some step throws, pathStack has the contents it had
\* before the call, and componentRegistry never holds two entries with the
\* same path.
C30_StackRestoredRegistryUnique ==
    []RegistryUnique /\ [][StackRestored]_vars

----------------------------------------------------------------------------
(* demo.tsx: the ComponentMapper overlay                                   *)

\* two detected components, "App" and "App/Card", with their rectangles
\* <<left, top, width, height>>
AppBounds == [path |-> <<65, 112, 112>>, rect |-> <<0, 0, 800, 600>>]
CardBounds ==
    [path |-> <<65, 112, 112, 47, 67, 97, 114, 100>>,
     rect |-> <<16, 16, 200, 120>>]

\* the same card after the layout moved it
MovedCardBounds ==
    [path |-> <<65, 112, 112, 47, 67, 97, 114, 100>>,
     rect |-> <<16, 300, 200, 120>>]

\* results of scanComponentBounds(): nothing measurable yet, the app alone,
\* the app with its card, the app with the card moved
Scans ==
    {<<>>, <<AppBounds>>, <<AppBounds, CardBounds>>,
     <<AppBounds, MovedCardBounds>>}

\* number of runs of the redraw effect followed
MaxRuns == 3

\* the images the redraw effect creates, one per component, each with the
\* onload callback of this run
ImagesOf(components, run) ==
    {[component |-> components[k], run |-> run] :
        k \in 1..Len(components)}

MapperRest ==
    /\ UNCHANGED <<nodeEnv, tree, rendered, createElement, isPatched,
                   componentRegistry, pathStack, enableCalled, calls>>
    /\ UNCHANGED <<exact, synth, match>>

\* the setInterval callback: scanComponentBounds() and setBounds(detected);
\* the new array makes the redraw effect due after the next render
Tick ==
    /\ \E detected \in Scans : bounds' = detected
    /\ effectDue' = TRUE
    /\ UNCHANGED <<runs, loading, canvas>>
    /\ MapperRest

\* the redraw effect: without a canvas (ComponentMapper returned null) or
\* with no bounds it returns at once; otherwise it sizes and clears the
\* canvas and starts loading one image per component
Redraw ==
    /\ effectDue
    /\ runs < MaxRuns
    /\ effectDue' = FALSE
    /\ IF ~isDev(nodeEnv) \/ bounds = <<>>
       THEN UNCHANGED <<runs, loading, canvas>>
       ELSE /\ runs' = runs + 1
            /\ canvas' = {}
            /\ loading' = loading \cup ImagesOf(bounds, runs + 1)
    /\ UNCHANGED bounds
    /\ MapperRest

\* img.onload of one loaded image: the pattern of its component is painted
\* over the component's rectangle
Onload ==
    /\ \E img \in loading :
           /\ loading' = loading \ {img}
           /\ canvas' = canvas \cup {img}
    /\ UNCHANGED <<bounds, effectDue, runs>>
    /\ MapperRest

\* the mount: the first effect's initial scan, which calls setBounds only
\* when it found something
InitMapper ==
    /\ nodeEnv \in Envs
    /\ bounds \in Scans
    /\ effectDue = (bounds # <<>>)
    /\ runs = 0 /\ loading = {} /\ canvas = {}
    /\ ReactIdle /\ OnlyReact

NextMapper == Tick \/ Redraw \/ Onload

SpecMapper == InitMapper /\ [][NextMapper]_vars

\* the components the latest run of the redraw effect drew for: each of its
\* images is still loading or already painted
LatestBounds ==
    {img.component : img \in {i \in loading \cup canvas : i.run = runs}}

\* C29: whatever the order of interval scans, runs of the redraw effect and
\* onload callbacks, once the effect has cleared the canvas for a new bounds
\* set, the canvas shows no pattern painted by an onload callback of an
\* earlier run for a component or rectangle of the previous bounds that the
\* new bounds no longer hold.
C29_NoStalePaint ==
    \A img \in canvas : img.run = runs \/ img.component \in LatestBounds

====
